---- MODULE Spec2Model ----
(***************************************************************************)
(* Model of hdx-scraper-operationalpresence: the organisation identity     *)
(* resolver (org.py), the name -> code resolver (mappings.py) with the     *)
(* sector and org type vocabularies (sector.py, org_type.py) and the two   *)
(* pass row pipeline (pipeline.py).                                        *)
(*                                                                         *)
(* Two specifications share the variables:                                 *)
(*   SpecOrg : populate, then any sequence of get_org_info,                *)
(*             complete_org_info and add_or_match_org calls;               *)
(*   Spec    : Pipeline.process(): populate, the preprocess pass over the  *)
(*             configured countries row by row, then the production pass.  *)
(***************************************************************************)
EXTENDS Integers, Sequences, FiniteSets, TLC

\* ------------------------------------------------------------------ bounds
MaxRef == 2        \* rows of the organisation reference table
MaxCalls == 5      \* Org API calls after populate (SpecOrg)
MaxRows == 3       \* source rows read in one run (Spec)
MaxRowsLater == 1  \* source rows read for a country after the first (Spec)

\* ----------------------------------------------------------------- strings
\* Python's None, kept apart from every string of the model.
None == "<None>"

\* Python truthiness of an optional string.
Truthy(x) == x # None /\ x # ""

\* hdx.utilities.text.normalise on the strings of the model: characters that
\* are not alphanumeric become one space, the result is stripped and
\* lower-cased.  A string of punctuation only normalises to "".
normalise(s) ==
  CASE s = "WHO" -> "who"
    [] s = " WHO" -> "who"
    [] s = "who" -> "who"
    [] s = "Who" -> "who"
    [] s = "-" -> ""
    [] s = "" -> ""
    [] s = " " -> ""
    [] s = "Health" -> "health"
    [] s = "health" -> "health"
    [] s = "HEALTH" -> "health"
    [] s = "Helth" -> "helth"
    [] s = "helth" -> "helth"
    [] s = "Helth." -> "helth"
    [] s = "WSH" -> "wsh"
    [] s = "HEA" -> "hea"
    [] s = "hea" -> "hea"
    [] s = "Cash" -> "cash"
    [] s = "Cash programming" -> "cash programming"
    [] s = "Hum" -> "hum"
    [] s = "Humanitarian assistance (unspecified)" -> "humanitarian assistance unspecified"
    [] s = "Multi" -> "multi"
    [] s = "Multi-sector (unspecified)" -> "multi sector unspecified"
    [] s = "Intersectoral" -> "intersectoral"
    [] s = "Xyz" -> "xyz"
    [] s = "Zzzzzzzz" -> "zzzzzzzz"
    [] s = "433" -> "433"
    [] s = "Donor" -> "donor"
    [] s = "501" -> "501"
    [] s = "Civil Society" -> "civil society"
    [] s = "502" -> "502"
    [] s = "Observer" -> "observer"
    [] s = "observer" -> "observer"
    [] s = "Observr" -> "observr"
    [] s = "503" -> "503"
    [] s = "Development Programme" -> "development programme"
    [] s = "504" -> "504"
    [] s = "Local NGO" -> "local ngo"
    [] s = "International Committee of the Red Cross"
         -> "international committee of the red cross"
    [] s = "International Committee of the R" -> "international committee of the r"
    [] OTHER -> s

\* len(s) for the strings whose length the code tests (OTHER: already
\* normalised strings, as long as the string they come from).
StrLen(s) ==
  CASE s = "" -> 0
    [] s \in {" ", "-"} -> 1
    [] s \in {"WHO", "who", "HEA", "hea", "Hum", "hum", "Xyz", "xyz",
              "433", "434", "501", "502", "503", "504", "WSH", "wsh"} -> 3
    [] s \in {" WHO", "Cash", "cash"} -> 4
    [] s \in {"Multi", "multi", "Donor", "donor", "Helth", "helth"} -> 5
    [] s \in {"Health", "health", "HEALTH", "Helth."} -> 6
    [] s \in {"Observr", "observr"} -> 7
    [] s \in {"Observer", "observer", "Zzzzzzzz", "zzzzzzzz"} -> 8
    [] s \in {"Local NGO", "local ngo"} -> 9
    [] s \in {"Intersectoral", "intersectoral", "Civil Society", "civil society"} -> 13
    [] s \in {"Cash programming", "cash programming"} -> 16
    [] s \in {"Development Programme", "development programme"} -> 21
    [] s = "Multi-sector (unspecified)" -> 26
    [] s = "multi sector unspecified" -> 24
    [] s = "Humanitarian assistance (unspecified)" -> 37
    [] s = "humanitarian assistance unspecified" -> 35
    [] s \in {"International Committee of the R", "international committee of the r"} -> 32
    [] s \in {"International Committee of the Red Cross",
              "international committee of the red cross"} -> 40
    [] OTHER -> 10

\* str.strip().replace("\xa0", " ") on the strings of the model.
Strip(s) ==
  CASE s = " WHO" -> "WHO"
    [] s = "Kabul " -> "Kabul"
    [] s = " " -> ""
    [] OTHER -> s

\* dict helpers: a dict is a function whose DOMAIN is its key set.
EmptyDict == [k \in {} |-> None]
Put(d, k, v) == [x \in (DOMAIN d) \cup {k} |-> IF x = k THEN v ELSE d[x]]
Get(d, k) == IF k \in DOMAIN d THEN d[k] ELSE None

\* A dict whose key order matters (a code lookup): its keys in insertion
\* order and the value of each.  Assigning to a key it already has keeps the
\* key's place.
EmptyLookup == [keys |-> <<>>, map |-> EmptyDict]
GetItem(d, k) == Get(d.map, k)
SetItem(d, k, v) ==
  [keys |-> IF k \in DOMAIN d.map THEN d.keys ELSE Append(d.keys, k),
   map |-> Put(d.map, k, v)]

\* ------------------------------------------------- mappings.py: name -> code
MATCH_THRESHOLD == 5

\* hdx.location.phonetics.Phonetics: the phonetic class of a name ("" for a
\* name that sounds like no other string of the model).
Sounds(s) ==
  CASE s \in {"Health", "health", "HEALTH", "Helth", "helth", "Helth."} -> "H430"
    [] s \in {"Observer", "observer", "Observr", "observr"} -> "O126"
    [] OTHER -> ""

\* Phonetics().match(possible_names, name, alternative_name): the first
\* candidate, in the order of the list, that sounds like the name or like
\* its alternative (the candidates of one phonetic class are equally near,
\* and the first of the nearest is returned); None without one.
PhoneticsMatch(names, name, alt) ==
  LET hits == {i \in 1..Len(names) :
                 Sounds(names[i]) # "" /\ Sounds(names[i]) \in {Sounds(name), Sounds(alt)}}
  IN IF hits = {} THEN None ELSE names[CHOOSE i \in hits : \A j \in hits : i <= j]

\* names = [x for x in code_lookup.keys() if len(x) > MATCH_THRESHOLD]
FuzzyCandidates(code_lookup) ==
  SelectSeq(code_lookup.keys, LAMBDA x : StrLen(x) > MATCH_THRESHOLD)

\* get_code_from_name without the test of len(name) against MATCH_THRESHOLD.
get_code_from_name_unguarded(name, code_lookup, unmatched, fuzzy_match) ==
  LET code == GetItem(code_lookup, name)
      name_clean == normalise(name)
      code2 == GetItem(code_lookup, name_clean)
      names == FuzzyCandidates(code_lookup)
      match == PhoneticsMatch(names, name, name_clean)
      code3 == GetItem(code_lookup, match)
      same == [code |-> None, lookup |-> code_lookup, unmatched |-> unmatched, fuzzy |-> FALSE]
      miss == [same EXCEPT !.unmatched = Append(unmatched, name)]
  IN IF Truthy(code) THEN [same EXCEPT !.code = code]
     ELSE IF \E i \in 1..Len(unmatched) : unmatched[i] = name THEN same
     ELSE IF Truthy(code2)
       THEN [same EXCEPT !.code = code2, !.lookup = SetItem(code_lookup, name, code2)]
     ELSE IF ~fuzzy_match THEN miss
     ELSE IF match = None THEN [miss EXCEPT !.fuzzy = TRUE]
     ELSE IF Truthy(code3)
       THEN [code |-> code3,
             lookup |-> SetItem(SetItem(code_lookup, name, code3), name_clean, code3),
             unmatched |-> unmatched, fuzzy |-> TRUE]
     ELSE [same EXCEPT !.code = code3, !.fuzzy = TRUE]

\* get_code_from_name(name, code_lookup, unmatched, fuzzy_match): the code
\* returned (None for no code) and the lookup and unmatched list it leaves.
\* fuzzy tells whether Phonetics().match was invoked.
get_code_from_name(name, code_lookup, unmatched, fuzzy_match) ==
  LET code == GetItem(code_lookup, name)
      name_clean == normalise(name)
      code2 == GetItem(code_lookup, name_clean)
      names == FuzzyCandidates(code_lookup)
      match == PhoneticsMatch(names, name, name_clean)
      code3 == GetItem(code_lookup, match)
      same == [code |-> None, lookup |-> code_lookup, unmatched |-> unmatched, fuzzy |-> FALSE]
      miss == [same EXCEPT !.unmatched = Append(unmatched, name)]
  IN IF Truthy(code) THEN [same EXCEPT !.code = code]
     ELSE IF \E i \in 1..Len(unmatched) : unmatched[i] = name THEN same
     ELSE IF Truthy(code2)
       THEN [same EXCEPT !.code = code2, !.lookup = SetItem(code_lookup, name, code2)]
     ELSE IF StrLen(name) <= MATCH_THRESHOLD THEN miss
     ELSE IF ~fuzzy_match THEN miss
     ELSE IF match = None THEN [miss EXCEPT !.fuzzy = TRUE]
     ELSE IF Truthy(code3)
       THEN [code |-> code3,
             lookup |-> SetItem(SetItem(code_lookup, name, code3), name_clean, code3),
             unmatched |-> unmatched, fuzzy |-> TRUE]
     ELSE [same EXCEPT !.code = code3, !.fuzzy = TRUE]

\* ---------------------------------------- sector.py / org_type.py: populate
\* parse_sector_values / parse_org_type_values: the four keys of one entry,
\* written in the order of the code.
parse_sector_values(d, code, name) ==
  SetItem(SetItem(SetItem(SetItem(d, name, code), code, code), normalise(name), code),
          normalise(code), code)

parse_org_type_values(d, code, description) ==
  SetItem(SetItem(SetItem(SetItem(d, code, code), description, code), normalise(code),
                  code),
          normalise(description), code)

\* The reference tables read by populate: <<code, preferred label>> rows.
SectorTable == << <<"HEA", "Health">> >>
OrgTypeTable == << <<"433", "Donor">> >>

\* The hardcoded extra entries (code, name).
SectorExtra == << <<"Cash", "Cash programming">>,
                  <<"Hum", "Humanitarian assistance (unspecified)">>,
                  <<"Multi", "Multi-sector (unspecified)">>,
                  <<"Intersectoral", "Intersectoral">> >>
OrgTypeExtra == << <<"501", "Civil Society">>, <<"502", "Observer">>,
                   <<"503", "Development Programme">>, <<"504", "Local NGO">> >>

RECURSIVE SectorRows(_, _)
SectorRows(d, tbl) ==
  IF tbl = <<>> THEN d
  ELSE SectorRows(parse_sector_values(d, Head(tbl)[1], Head(tbl)[2]), Tail(tbl))

RECURSIVE OrgTypeRows(_, _)
OrgTypeRows(d, tbl) ==
  IF tbl = <<>> THEN d
  ELSE OrgTypeRows(parse_org_type_values(d, Head(tbl)[1], Head(tbl)[2]), Tail(tbl))

\* Sector.populate / OrgType.populate for a table: its rows, then the extras.
SectorPopulateFrom(table) == SectorRows(SectorRows(EmptyLookup, table), SectorExtra)
OrgTypePopulateFrom(table) == OrgTypeRows(OrgTypeRows(EmptyLookup, table), OrgTypeExtra)

\* Sector.populate / OrgType.populate: the table rows, then the extras.
SectorPopulate == SectorRows(SectorRows(EmptyLookup, SectorTable), SectorExtra)
OrgTypePopulate == OrgTypeRows(OrgTypeRows(EmptyLookup, OrgTypeTable), OrgTypeExtra)

\* get_code_to_name of the org type vocabulary and Sector.get_name: the
\* preferred label of a code.
CodeToName(code) ==
  CASE code = "HEA" -> "Health"
    [] code = "433" -> "Donor"
    [] code = "501" -> "Civil Society"
    [] code = "502" -> "Observer"
    [] code = "503" -> "Development Programme"
    [] code = "504" -> "Local NGO"
    [] OTHER -> ""

\* ------------------------------------------------------------------- state
VARIABLES
  org_map,             \* Org._org_map: (country, lookup string) -> identity
  infos,               \* the OrgInfo objects, by identity (heap index)
  data,                \* Org.data: (normalised acronym, normalised name) -> OrgData
  org_type_data,       \* OrgType.data
  org_type_unmatched,  \* OrgType.unmatched
  sector_data,         \* Sector.data
  sector_unmatched,    \* Sector.unmatched
  errors,              \* the diagnostics handed to the error handler
  pc,                  \* where the run is
  lastOp,              \* the last Org call: its arguments and what it returned
  returned,            \* (country, raw) -> the identity its first get_org_info returned
  ncalls,              \* Org calls made so far (SpecOrg)
  config,              \* country -> the datasetinfo columns Sheet.get_datasetinfo gave
  ci,                  \* index of the country the current pass is at
  source,              \* country -> the rows its reader has yielded so far, in order
  rows,                \* country -> the rows list of preprocess_country / datasetinfo["rows"]
  kept,                \* country -> datasetinfo["rows"] as the production pass read it
  norows,              \* the row counter of the running preprocess_country
  iso3_to_datasetinfo, \* Pipeline._iso3_to_datasetinfo: its keys in insertion order
  outcome,             \* country -> how its preprocess_country ended
  produced,            \* the countries whose process_country returned, in order
  out_rows,            \* Pipeline._rows (the records; their sorted order is not kept)
  start_date,          \* Pipeline._start_date
  end_date,            \* Pipeline._end_date
  nread,               \* source rows read so far in the run (Spec)
  vocab,               \* the vocabulary under test and its reference table (SpecVocab)
  lastLookup,          \* the last get_code_from_name call and what it did (SpecVocab)
  fuzzied,             \* the names Phonetics().match has been invoked for (SpecVocab)
  earliest_start_date, \* preprocess_country: earliest start date so far, <<>> for None
  latest_end_date,     \* preprocess_country: latest end date so far, <<>> for None
  sheet_row,           \* the country's sheet row: its automated start and end dates
  adm_cols,            \* the configured admin code and admin name columns (SpecAdmin)
  adm_row,             \* the retained row process_country handles (SpecAdmin)
  adm_record,          \* the record built for it, <<>> when none (SpecAdmin)
  dataset_3w,          \* what generate_3w_dataset returned, "pending" before the call
  email_text,          \* Sheet.email_text: the notification lines
  worksheet,           \* Sheet.sheet is not None: a worksheet is attached
  countryiso3s_to_process,  \* Pipeline._countryiso3s_to_process ({} is None)
  datasets_found,      \* what search_datasets returned, in its order (SpecFind)
  fi,                  \* the dataset find_datasets_resources handles next (SpecFind)
  datasets_by_iso3,    \* Pipeline._datasets_by_iso3
  spreadsheet_rows     \* Sheet.spreadsheet_rows: the automated cells of each row (SpecFind)

orgVars == <<org_map, infos, data, org_type_data, org_type_unmatched, errors>>

pipeVars == <<config, ci, source, rows, kept, norows, iso3_to_datasetinfo, outcome,
              produced, out_rows, start_date, end_date, nread>>

callVars == <<lastOp, returned, ncalls>>

vocabVars == <<vocab, lastLookup, fuzzied>>

datesVars == <<earliest_start_date, latest_end_date, sheet_row>>

admVars == <<adm_cols, adm_row, adm_record>>

genVars == <<dataset_3w>>

sheetVars == <<email_text, worksheet>>

findVars == <<countryiso3s_to_process, datasets_found, fi, datasets_by_iso3,
              spreadsheet_rows>>

\* ------------------------------------------------------------ org.py: Org
MaxAcronym == 32

LongAcronym == "International Committee of the Red Cross"

\* org_acronym[:32]
Trunc32(s) == IF s = LongAcronym THEN "International Committee of the R" ELSE s

\* len(org_acronym) > 32
TooLong(s) == s = LongAcronym \/ StrLen(s) > MaxAcronym

OrgInfo(canonical_name, normalised_name, acronym, normalised_acronym, type_code, complete) ==
  [canonical_name |-> canonical_name, normalised_name |-> normalised_name,
   acronym |-> acronym, normalised_acronym |-> normalised_acronym,
   type_code |-> type_code, complete |-> complete, used |-> FALSE]

OrgData(acronym, name, type_code) ==
  [acronym |-> acronym, name |-> name, type_code |-> type_code]

\* Org.blank_org_info
blank_org_info == OrgInfo("", "", "", "", "", FALSE)

\* One row of Org.populate: a row without canonical name is skipped, any
\* other row makes one OrgInfo indexed under six keys (the last writer of a
\* key wins).  A blank cell of the table is None.
PopulateRow(st, row) ==
  IF ~Truthy(row.name) THEN st
  ELSE
    LET id == Len(st.infos) + 1
        normalised_name == normalise(row.name)
        normalised_acronym == IF Truthy(row.acronym) THEN normalise(row.acronym) ELSE None
        complete == Truthy(row.acronym) /\ Truthy(row.type_code)
        org_info == OrgInfo(row.name, normalised_name, row.acronym, normalised_acronym,
                            row.type_code, complete)
        c == row.country
        m1 == Put(st.map, <<c, row.name>>, id)
        m2 == Put(m1, <<c, normalised_name>>, id)
        m3 == Put(m2, <<c, row.acronym>>, id)
        m4 == Put(m3, <<c, normalised_acronym>>, id)
        m5 == Put(m4, <<c, row.pattern>>, id)
        m6 == Put(m5, <<c, normalise(row.pattern)>>, id)
    IN [map |-> m6, infos |-> Append(st.infos, org_info)]

RECURSIVE PopulateRows(_, _)
PopulateRows(st, tbl) ==
  IF tbl = <<>> THEN st ELSE PopulateRows(PopulateRow(st, Head(tbl)), Tail(tbl))

\* get_org_info without "self._org_map[key] = org_info" for a new identity.
get_org_info_uncached(om, inf, org_str, location) ==
  LET key == <<location, org_str>>
      normalised_str == normalise(org_str)
      hit(id) == [map |-> Put(om, key, id), infos |-> inf, ret |-> id]
      new == Len(inf) + 1
  IN IF key \in DOMAIN om THEN [map |-> om, infos |-> inf, ret |-> om[key]]
     ELSE IF <<location, normalised_str>> \in DOMAIN om THEN hit(om[<<location, normalised_str>>])
     ELSE IF <<None, org_str>> \in DOMAIN om THEN hit(om[<<None, org_str>>])
     ELSE IF <<None, normalised_str>> \in DOMAIN om THEN hit(om[<<None, normalised_str>>])
     ELSE [map |-> om,
           infos |-> Append(inf, OrgInfo(org_str, normalised_str, "", "", "", FALSE)),
           ret |-> new]

\* get_org_info trying the global entries before those of the country.
get_org_info_global_first(om, inf, org_str, location) ==
  LET key == <<location, org_str>>
      normalised_str == normalise(org_str)
      hit(id) == [map |-> Put(om, key, id), infos |-> inf, ret |-> id]
      new == Len(inf) + 1
  IN IF <<None, org_str>> \in DOMAIN om THEN hit(om[<<None, org_str>>])
     ELSE IF <<None, normalised_str>> \in DOMAIN om THEN hit(om[<<None, normalised_str>>])
     ELSE IF key \in DOMAIN om THEN [map |-> om, infos |-> inf, ret |-> om[key]]
     ELSE IF <<location, normalised_str>> \in DOMAIN om THEN hit(om[<<location, normalised_str>>])
     ELSE [map |-> Put(om, key, new),
           infos |-> Append(inf, OrgInfo(org_str, normalised_str, "", "", "", FALSE)),
           ret |-> new]

\* Org.get_org_info(org_str, location): the identity returned and the map
\* and heap it leaves.
get_org_info(om, inf, org_str, location) ==
  LET key == <<location, org_str>>
      normalised_str == normalise(org_str)
      hit(id) == [map |-> Put(om, key, id), infos |-> inf, ret |-> id]
      new == Len(inf) + 1
  IN IF key \in DOMAIN om THEN [map |-> om, infos |-> inf, ret |-> om[key]]
     ELSE IF <<location, normalised_str>> \in DOMAIN om THEN hit(om[<<location, normalised_str>>])
     ELSE IF <<None, org_str>> \in DOMAIN om THEN hit(om[<<None, org_str>>])
     ELSE IF <<None, normalised_str>> \in DOMAIN om THEN hit(om[<<None, normalised_str>>])
     ELSE [map |-> Put(om, key, new),
           infos |-> Append(inf, OrgInfo(org_str, normalised_str, "", "", "", FALSE)),
           ret |-> new]

\* The key add_or_match_org stores an identity under.
OrgKey(org_info) == <<org_info.normalised_acronym, org_info.normalised_name>>

\* add_or_match_org storing the type code of the identity whenever it has one.
add_or_match_org_overwrite(inf, dat, id) ==
  LET org_info == inf[id]
      key == OrgKey(org_info)
      found == key \in DOMAIN dat
      backfill == found /\ Truthy(org_info.type_code)
      org_data == IF ~found
                    THEN OrgData(org_info.acronym, org_info.canonical_name, org_info.type_code)
                  ELSE IF backfill
                    THEN OrgData(dat[key].acronym, dat[key].name, org_info.type_code)
                  ELSE dat[key]
      matched == IF ~found THEN org_info
                 ELSE [org_info EXCEPT
                         !.type_code = IF backfill THEN @ ELSE org_data.type_code,
                         !.acronym = org_data.acronym,
                         !.canonical_name = org_data.name]
      done == [matched EXCEPT
                 !.complete = IF Truthy(matched.acronym) /\ Truthy(matched.type_code)
                                THEN TRUE ELSE @,
                 !.used = TRUE]
  IN [infos |-> [inf EXCEPT ![id] = done],
      data |-> IF found /\ ~backfill THEN dat ELSE Put(dat, key, org_data),
      ret |-> org_data]

\* Org.add_or_match_org(org_info): the heap and Org.data it leaves and the
\* OrgData it returns.
add_or_match_org(inf, dat, id) ==
  LET org_info == inf[id]
      key == OrgKey(org_info)
      found == key \in DOMAIN dat
      backfill == found /\ ~Truthy(dat[key].type_code) /\ Truthy(org_info.type_code)
      org_data == IF ~found
                    THEN OrgData(org_info.acronym, org_info.canonical_name, org_info.type_code)
                  ELSE IF backfill
                    THEN OrgData(dat[key].acronym, dat[key].name, org_info.type_code)
                  ELSE dat[key]
      matched == IF ~found THEN org_info
                 ELSE [org_info EXCEPT
                         !.type_code = IF backfill THEN @ ELSE org_data.type_code,
                         !.acronym = org_data.acronym,
                         !.canonical_name = org_data.name]
      done == [matched EXCEPT
                 !.complete = IF Truthy(matched.acronym) /\ Truthy(matched.type_code)
                                THEN TRUE ELSE @,
                 !.used = TRUE]
  IN [infos |-> [inf EXCEPT ![id] = done],
      data |-> IF found /\ ~backfill THEN dat ELSE Put(dat, key, org_data),
      ret |-> org_data]

\* add_missing_value_message / add_message of the error handler.
MissingValue(dataset_name, value_type, value) ==
  [dataset |-> dataset_name, kind |-> "missing value", what |-> value_type, text |-> value]

Message(dataset_name, text, detail) ==
  [dataset |-> dataset_name, kind |-> "message", what |-> text, text |-> detail]

\* complete_org_info storing a supplied acronym whether or not the identity
\* has one.
complete_org_info_overwrite(inf, lookup, unmatched, errs, id, org_acronym, org_type_name, dataset_name) ==
  LET org_info == inf[id]
      acr == IF TooLong(org_acronym) THEN Trunc32(org_acronym) ELSE org_acronym
      withAcr == IF Truthy(org_acronym)
                   THEN [org_info EXCEPT !.acronym = acr, !.normalised_acronym = normalise(acr)]
                 ELSE org_info
      ask == ~Truthy(org_info.type_code) /\ Truthy(org_type_name)
      got == get_code_from_name(org_type_name, lookup, unmatched, TRUE)
      withType == IF ask /\ Truthy(got.code) THEN [withAcr EXCEPT !.type_code = got.code]
                  ELSE withAcr
  IN [infos |-> [inf EXCEPT ![id] = withType],
      lookup |-> IF ask THEN got.lookup ELSE lookup,
      unmatched |-> IF ask THEN got.unmatched ELSE unmatched,
      errors |-> IF ask /\ ~Truthy(got.code)
                   THEN errs \cup {MissingValue(dataset_name, "org type", org_type_name)}
                 ELSE errs]

\* Org.complete_org_info(org_info, org_acronym, org_type_name, dataset_name):
\* the heap, the org type vocabulary and the diagnostics it leaves.
complete_org_info(inf, lookup, unmatched, errs, id, org_acronym, org_type_name, dataset_name) ==
  LET org_info == inf[id]
      acr == IF TooLong(org_acronym) THEN Trunc32(org_acronym) ELSE org_acronym
      withAcr == IF ~Truthy(org_info.acronym) /\ Truthy(org_acronym)
                   THEN [org_info EXCEPT !.acronym = acr, !.normalised_acronym = normalise(acr)]
                 ELSE org_info
      ask == ~Truthy(org_info.type_code) /\ Truthy(org_type_name)
      got == get_code_from_name(org_type_name, lookup, unmatched, TRUE)
      withType == IF ask /\ Truthy(got.code) THEN [withAcr EXCEPT !.type_code = got.code]
                  ELSE withAcr
  IN [infos |-> [inf EXCEPT ![id] = withType],
      lookup |-> IF ask THEN got.lookup ELSE lookup,
      unmatched |-> IF ask THEN got.unmatched ELSE unmatched,
      errors |-> IF ask /\ ~Truthy(got.code)
                   THEN errs \cup {MissingValue(dataset_name, "org type", org_type_name)}
                 ELSE errs]

\* Org.get_org_type_description
get_org_type_description(org_type_code) ==
  IF org_type_code = "" THEN "" ELSE CodeToName(org_type_code)

\* --------------------------------------------------------- inputs (bounded)
Countries == {"AFG", "ETH"}

\* Raw organisation strings of the get_org_info calls of SpecOrg.
OrgStrs == {"WHO", "Who"}

\* Acronym and org type cells of the source rows.
AcronymStrs == {"", "WHO", "who", "-", LongAcronym}
OrgTypeStrs == {"", "Observer", "Xyz"}

\* Candidate rows of the organisation reference table (#org+name,
\* #country+code, #org+acronym, #x_pattern, #org+type+code): a global complete
\* organisation, a country one without acronym, a country one whose acronym
\* normalises to "", and a row without canonical name.
RefRow(name, country, acronym, pattern, type_code) ==
  [name |-> name, country |-> country, acronym |-> acronym, pattern |-> pattern,
   type_code |-> type_code]

RefRows == { RefRow("WHO", None, "WHO", "who", "433"),
             RefRow("WHO", "AFG", None, "WHO", None),
             RefRow("WHO", "ETH", "-", "WHO", "433"),
             RefRow(None, None, "WHO", "WHO", "433") }

RefTables == UNION { [1..n -> RefRows] : n \in 0..MaxRef }

\* The last Org call: its name, its arguments, the identity it was about and
\* what it returned; before is that identity as it was when the call was made
\* (for get_org_info: as it was at the earlier call the result is compared
\* with), in a sequence of length 0 or 1.
NoOp == [op |-> "none", key |-> <<None, None>>, id |-> 0, ret |-> 0, before |-> <<>>]

\* default_enddate / default_date of hdx.utilities.dateparse, as day numbers.
default_enddate == 99
default_date == 0

\* No get_code_from_name call made yet.
NoLookup == [name |-> None, code |-> None, fuzzy |-> FALSE, names |-> <<>>,
             listed |-> FALSE, again |-> FALSE]

\* The vocabularies as the pipeline has them: the standard tables.
InitVocabIdle ==
  /\ vocab = [kind |-> "none", table |-> <<>>]
  /\ lastLookup = NoLookup
  /\ fuzzied = {}

\* No country's dates tracked, no automated dates in the sheet row.
InitDatesIdle ==
  /\ earliest_start_date = <<>>
  /\ latest_end_date = <<>>
  /\ sheet_row = [start |-> None, end |-> None]

\* No admin columns under test, no row handled.
InitAdmIdle ==
  /\ adm_cols = [code |-> <<>>, name |-> <<>>]
  /\ adm_row = <<>>
  /\ adm_record = <<>>

\* generate_3w_dataset has not been called.
InitGenIdle == dataset_3w = "pending"

\* Sheet.__init__ without gsheet_auth: self.sheet = None, self.email_text = []
InitSheetIdle ==
  /\ email_text = <<>>
  /\ worksheet = FALSE

\* The row add_update_row creates for a country without one: its automated
\* dataset, resource and format; it has no automated date cells.
SheetRow(dataset_name, resource_name, resource_format) ==
  [exclude |-> "", dataset |-> dataset_name, resource |-> resource_name,
   format |-> resource_format, start |-> None, end |-> None]

\* A row read_existing built: every header has a cell.
ReadRow(exclude, dataset_name, resource_name, resource_format, start, end) ==
  [exclude |-> exclude, dataset |-> dataset_name, resource |-> resource_name,
   format |-> resource_format, start |-> start, end |-> end]

\* Pipeline.__init__ with no country filter, nothing searched; an empty sheet.
InitFindIdle ==
  /\ countryiso3s_to_process = {}
  /\ datasets_found = <<>>
  /\ fi = 1
  /\ datasets_by_iso3 = [k \in {} |-> None]
  /\ spreadsheet_rows = [k \in {} |-> None]

\* Pipeline.__init__: nothing found, nothing read, nothing produced yet.
InitPipe ==
  /\ config = EmptyDict
  /\ ci = 1
  /\ source = EmptyDict
  /\ rows = EmptyDict
  /\ kept = EmptyDict
  /\ norows = 0
  /\ iso3_to_datasetinfo = <<>>
  /\ outcome = EmptyDict
  /\ produced = <<>>
  /\ out_rows = {}
  /\ start_date = default_enddate
  /\ end_date = default_date
  /\ nread = 0

\* ------------------------------------------------- SpecOrg: the Org object
InitOrg ==
  /\ org_map = EmptyDict
  /\ infos = <<>>
  /\ data = EmptyDict
  /\ org_type_data = OrgTypePopulate
  /\ org_type_unmatched = <<>>
  /\ sector_data = SectorPopulate
  /\ sector_unmatched = <<>>
  /\ errors = {}
  /\ pc = "new"
  /\ lastOp = NoOp
  /\ returned = EmptyDict
  /\ ncalls = 0
  /\ InitPipe
  /\ InitVocabIdle
  /\ InitDatesIdle
  /\ InitAdmIdle
  /\ InitGenIdle
  /\ InitSheetIdle
  /\ InitFindIdle

\* Org.populate()
OrgPopulate ==
  /\ pc = "new"
  /\ \E table \in RefTables :
       LET st == PopulateRows([map |-> org_map, infos |-> infos], table)
       IN /\ org_map' = st.map
          /\ infos' = st.infos
  /\ pc' = "ready"
  /\ lastOp' = [NoOp EXCEPT !.op = "populate"]
  /\ UNCHANGED <<data, org_type_data, org_type_unmatched, sector_data, sector_unmatched,
                 errors, returned, ncalls>>
  /\ UNCHANGED pipeVars
  /\ UNCHANGED vocabVars
  /\ UNCHANGED admVars
  /\ UNCHANGED datesVars
  /\ UNCHANGED genVars
  /\ UNCHANGED sheetVars
  /\ UNCHANGED findVars

\* What the caller remembers of its get_org_info calls, per (location,
\* org_str): the identity the first call returned and, from the first call
\* that found the identity merged, the identity's fields; the fields are
\* forgotten when complete_org_info or add_or_match_org is called on it.
Snapshot(key) == IF key \in DOMAIN returned THEN returned[key].snap ELSE <<>>

Forget(id) ==
  [k \in DOMAIN returned |->
     IF returned[k].id = id THEN [returned[k] EXCEPT !.snap = <<>>] ELSE returned[k]]

\* Org.get_org_info(org_str, location)
OrgGet ==
  /\ pc = "ready"
  /\ ncalls < MaxCalls
  /\ \E org_str \in OrgStrs, location \in Countries :
       LET r == get_org_info(org_map, infos, org_str, location)
           key == <<location, org_str>>
       IN /\ org_map' = r.map
          /\ infos' = r.infos
          /\ lastOp' = [op |-> "get", key |-> key, id |-> r.ret, ret |-> r.ret,
                        before |-> Snapshot(key)]
          /\ returned' = Put(returned, key,
                             [id |-> IF key \in DOMAIN returned THEN returned[key].id
                                     ELSE r.ret,
                              snap |-> IF Snapshot(key) # <<>> THEN Snapshot(key)
                                       ELSE IF r.infos[r.ret].used THEN <<r.infos[r.ret]>>
                                       ELSE <<>>])
  /\ ncalls' = ncalls + 1
  /\ UNCHANGED <<data, org_type_data, org_type_unmatched, sector_data, sector_unmatched,
                 errors, pc>>
  /\ UNCHANGED pipeVars
  /\ UNCHANGED vocabVars
  /\ UNCHANGED admVars
  /\ UNCHANGED datesVars
  /\ UNCHANGED genVars
  /\ UNCHANGED sheetVars
  /\ UNCHANGED findVars

\* The identities a caller holds: those get_org_info has returned.
Held == {returned[k].id : k \in DOMAIN returned}

\* Org.complete_org_info(org_info, org_acronym, org_type_name, dataset_name)
OrgComplete ==
  /\ pc = "ready"
  /\ ncalls < MaxCalls
  /\ \E id \in Held, org_acronym \in AcronymStrs, org_type_name \in OrgTypeStrs :
       LET r == complete_org_info(infos, org_type_data, org_type_unmatched, errors,
                                  id, org_acronym, org_type_name, "dataset")
       IN /\ infos' = r.infos
          /\ org_type_data' = r.lookup
          /\ org_type_unmatched' = r.unmatched
          /\ errors' = r.errors
          /\ lastOp' = [op |-> "complete", key |-> <<org_acronym, org_type_name>>,
                        id |-> id, ret |-> 0, before |-> <<infos[id]>>]
          /\ returned' = Forget(id)
  /\ ncalls' = ncalls + 1
  /\ UNCHANGED <<org_map, data, sector_data, sector_unmatched, pc>>
  /\ UNCHANGED pipeVars
  /\ UNCHANGED vocabVars
  /\ UNCHANGED admVars
  /\ UNCHANGED datesVars
  /\ UNCHANGED genVars
  /\ UNCHANGED sheetVars
  /\ UNCHANGED findVars

\* Org.add_or_match_org(org_info)
OrgAdd ==
  /\ pc = "ready"
  /\ ncalls < MaxCalls
  /\ \E id \in Held :
       LET r == add_or_match_org(infos, data, id)
       IN /\ infos' = r.infos
          /\ data' = r.data
          /\ lastOp' = [op |-> "add", key |-> OrgKey(infos[id]), id |-> id, ret |-> 0,
                        before |-> <<infos[id]>>]
          /\ returned' = Forget(id)
  /\ ncalls' = ncalls + 1
  /\ UNCHANGED <<org_map, org_type_data, org_type_unmatched, sector_data, sector_unmatched,
                 errors, pc>>
  /\ UNCHANGED pipeVars
  /\ UNCHANGED vocabVars
  /\ UNCHANGED admVars
  /\ UNCHANGED datesVars
  /\ UNCHANGED genVars
  /\ UNCHANGED sheetVars
  /\ UNCHANGED findVars

vars == <<org_map, infos, data, org_type_data, org_type_unmatched, sector_data,
          sector_unmatched, errors, pc, lastOp, returned, ncalls, config, ci, source, rows,
          kept, norows, iso3_to_datasetinfo, outcome, produced, out_rows, start_date,
          end_date, nread, vocab, lastLookup, fuzzied, earliest_start_date,
          latest_end_date, sheet_row, adm_cols, adm_row, adm_record, dataset_3w,
          email_text, countryiso3s_to_process, datasets_found, fi, datasets_by_iso3,
          spreadsheet_rows>>

NextOrg == OrgPopulate \/ OrgGet \/ OrgComplete \/ OrgAdd

SpecOrg == InitOrg /\ [][NextOrg]_vars

\* ---------------------------------- SpecVocab: the vocabulary lookup tables
MaxVocab == 2        \* rows of the reference table a vocabulary is populated from

\* Rows (code, label) a reference table may hold.
SectorRowsIn == { <<"HEA", "Health">>, <<"", "Health">>, <<"WSH", "HEA">>,
                  <<"HEA", "health">> }
OrgTypeRowsIn == { <<"433", "Donor">>, <<"", "Donor">>, <<"434", "433">> }

VocabTables(kind) ==
  LET rowset == IF kind = "sector" THEN SectorRowsIn ELSE OrgTypeRowsIn
  IN UNION {[1..n -> rowset] : n \in 1..MaxVocab}

\* The names looked up.
VocabNames == {"Health", "helth", "Helth.", "Zzzzzzzz", "Xyz", "Observr"}

\* Sector(...).populate() / OrgType(...).populate() on a reference table.
InitVocab ==
  /\ org_map = EmptyDict
  /\ infos = <<>>
  /\ data = EmptyDict
  /\ \E kind \in {"sector", "org_type"} :
       \E table \in VocabTables(kind) :
         /\ vocab = [kind |-> kind, table |-> table]
         /\ sector_data = IF kind = "sector" THEN SectorPopulateFrom(table)
                          ELSE SectorPopulate
         /\ org_type_data = IF kind = "org_type" THEN OrgTypePopulateFrom(table)
                            ELSE OrgTypePopulate
  /\ org_type_unmatched = <<>>
  /\ sector_unmatched = <<>>
  /\ errors = {}
  /\ pc = "vocab"
  /\ lastOp = NoOp
  /\ returned = EmptyDict
  /\ ncalls = 0
  /\ InitPipe
  /\ lastLookup = NoLookup
  /\ fuzzied = {}
  /\ InitDatesIdle
  /\ InitAdmIdle
  /\ InitGenIdle
  /\ InitSheetIdle
  /\ InitFindIdle

\* What a get_code_from_name call did: its name and result, whether
\* Phonetics().match was invoked and on which candidates, whether the name
\* was in unmatched before the call and whether it had been fuzzy matched
\* before.
Lookup(name, r, code_lookup, unmatched) ==
  [name |-> name, code |-> r.code, fuzzy |-> r.fuzzy,
   names |-> IF r.fuzzy THEN FuzzyCandidates(code_lookup) ELSE <<>>,
   listed |-> \E i \in 1..Len(unmatched) : unmatched[i] = name,
   again |-> name \in fuzzied]

\* Sector.get_sector_code(sector)
SectorLookup ==
  /\ pc = "vocab"
  /\ vocab.kind = "sector"
  /\ \E sector \in VocabNames :
       LET r == get_code_from_name(sector, sector_data, sector_unmatched, TRUE)
       IN /\ sector_data' = r.lookup
          /\ sector_unmatched' = r.unmatched
          /\ lastLookup' = Lookup(sector, r, sector_data, sector_unmatched)
          /\ fuzzied' = IF r.fuzzy THEN fuzzied \cup {sector} ELSE fuzzied
  /\ UNCHANGED <<org_map, infos, data, org_type_data, org_type_unmatched, errors, pc,
                 vocab>>
  /\ UNCHANGED callVars
  /\ UNCHANGED pipeVars
  /\ UNCHANGED datesVars
  /\ UNCHANGED admVars
  /\ UNCHANGED genVars
  /\ UNCHANGED sheetVars
  /\ UNCHANGED findVars

\* OrgType.get_org_type_code(org_type)
OrgTypeLookup ==
  /\ pc = "vocab"
  /\ vocab.kind = "org_type"
  /\ \E org_type \in VocabNames :
       LET r == get_code_from_name(org_type, org_type_data, org_type_unmatched, TRUE)
       IN /\ org_type_data' = r.lookup
          /\ org_type_unmatched' = r.unmatched
          /\ lastLookup' = Lookup(org_type, r, org_type_data, org_type_unmatched)
          /\ fuzzied' = IF r.fuzzy THEN fuzzied \cup {org_type} ELSE fuzzied
  /\ UNCHANGED <<org_map, infos, data, sector_data, sector_unmatched, errors, pc, vocab>>
  /\ UNCHANGED callVars
  /\ UNCHANGED pipeVars
  /\ UNCHANGED datesVars
  /\ UNCHANGED admVars
  /\ UNCHANGED genVars
  /\ UNCHANGED sheetVars
  /\ UNCHANGED findVars

NextVocab == SectorLookup \/ OrgTypeLookup

SpecVocab == InitVocab /\ [][NextVocab]_vars

\* The vocabulary under test and its unmatched list.
VocabData == (IF vocab.kind = "sector" THEN sector_data ELSE org_type_data).map

VocabUnmatched == IF vocab.kind = "sector" THEN sector_unmatched ELSE org_type_unmatched

\* ------------------------------------------------ pipeline.py: the inputs
\* Sheet.get_countries(): the configured countries, in sheet order.
CountrySeq == <<"AFG", "ETH">>

\* The country whose date columns are followed.
DatesCountry == CountrySeq[1]

\* datasetinfo["dataset"]
DatasetName(c) == IF c = "AFG" THEN "afg-3w" ELSE "eth-3w"

\* datasetinfo["time_period"] (day numbers), set by read_hdx_metadata.
TimePeriod(c) == IF c = "AFG" THEN [start |-> 3, end |-> 7] ELSE [start |-> 2, end |-> 5]

\* The configuration: allowed_formats.
AllowedFormats == {"csv", "xls", "xlsx"}

\* The resource read_hdx_metadata returns, as get_format reads it: its name,
\* its url and its HDX format.
Resource(name, url, format) == [name |-> name, url |-> url, format |-> format]

\* A resource whose url ends with its HDX format, one whose url ends with
\* another allowed format, and one of a format that is not allowed.
Resources ==
  [same |-> Resource("3w.xlsx", "http://x/3w.xlsx", "xlsx"),
   other |-> Resource("3w.xlsx", "http://x/3w.xlsx", "csv"),
   pdf |-> Resource("3w.pdf", "http://x/3w.pdf", "pdf")]

\* resource["url"][-n:].lower() for n = 4 and n = 3
UrlTail(url, n) ==
  CASE url = "http://x/3w.xlsx" -> IF n = 4 THEN "xlsx" ELSE "lsx"
    [] url = "http://x/3w.xls" -> IF n = 4 THEN ".xls" ELSE "xls"
    [] url = "http://x/3w.csv" -> IF n = 4 THEN ".csv" ELSE "csv"
    [] url = "http://x/3w.pdf" -> IF n = 4 THEN ".pdf" ELSE "pdf"
    [] OTHER -> IF n = 4 THEN "load" ELSE "oad"

\* Pipeline.get_format_from_url: the allowed format the url ends with, None
\* without one.
get_format_from_url(resource) ==
  LET format == IF UrlTail(resource.url, 4) \notin AllowedFormats
                  THEN UrlTail(resource.url, 3) ELSE UrlTail(resource.url, 4)
  IN IF format \in AllowedFormats THEN format ELSE None

\* Pipeline.get_format: whether the format is allowed, the format, and the
\* diagnostics after it; a url format that differs from the HDX format is
\* reported as an error and used.
get_format(errs, dataset_name, resource) ==
  LET hdx_format == resource.format
      url_format == get_format_from_url(resource)
      format == IF Truthy(url_format) THEN url_format ELSE hdx_format
  IN [success |-> format \in AllowedFormats,
      format |-> format,
      errors |-> IF Truthy(url_format) /\ url_format # hdx_format
                   THEN errs \cup {Message(dataset_name, "error",
                                           "Resource " \o resource.name
                                           \o " has url with format " \o url_format
                                           \o " that is different to HDX format "
                                           \o hdx_format)}
                 ELSE errs]

\* What Sheet.get_datasetinfo gives preprocess_country, as far as the rows
\* are concerned: acr_col "name" is the default (no acronym column: the name
\* column is used), "own" a column of its own; type_col "none" is no org
\* type column, "bad" one that the file does not have; adm_ok tells whether
\* the admin name column exists in the file; resource is the resource the
\* row names; filter whether a Filter expression is configured
\* (row['Flag']=='Y'); use_hxl whether the columns are given as HXL tags
\* (the Org Name Column starts with "#").
Config(acr_col, type_col, adm_ok, resource, filter, use_hxl) ==
  [acr_col |-> acr_col, type_col |-> type_col, adm_ok |-> adm_ok,
   resource |-> resource, filter |-> filter, use_hxl |-> use_hxl]

Configs == { Config("own", "own", TRUE, Resources.same, FALSE, FALSE),
             Config("name", "none", TRUE, Resources.same, TRUE, TRUE),
             Config("own", "bad", TRUE, Resources.other, FALSE, FALSE),
             Config("own", "own", FALSE, Resources.same, FALSE, FALSE),
             Config("own", "own", TRUE, Resources.pdf, FALSE, FALSE) }

\* A source row: the cells of its columns.
SrcRow(org, acr, typ, sector, adm1, flag, note) ==
  [org |-> org, acr |-> acr, typ |-> typ, sector |-> sector, adm1 |-> adm1,
   flag |-> flag, note |-> note]

SrcRows == { SrcRow("WHO", "WHO", "", "", "Kabul", "Y", "a"),
             SrcRow("WHO", "WHO", "", "Health", "Kabul", "Y", "a"),
             SrcRow("WHO", "WHO", "", "Health", "Kabul ", "Y", "b"),
             SrcRow("who", "", "Observer", "HEA", "", "Y", "a"),
             SrcRow("WHO", "", "", "health", "Kabul", "N", "a"),
             SrcRow("", "", "", "Health", "Herat", "Y", "a"),
             SrcRow("WHO", "#N/A", "", "", "Kabul", "Y", "a"),
             SrcRow("WHO", "-", "Xyz", "Xyz", "Kabul", "Y", "a"),
             SrcRow("", " WHO", "", "Health", "Kabul", "Y", "a"),
             SrcRow(" ", "WHO", "", "Health", "Kabul", "Y", "a") }

\* value[0] == "#"
StartsHash(value) == value \in {"#N/A", "#org", "#sector"}

\* The "Skip HXL tag row" test: some cell of the row starts with "#".
IsHxlRow(row) ==
  \E value \in {row.org, row.acr, row.typ, row.sector, row.adm1, row.flag, row.note} :
    Truthy(value) /\ StartsHash(value)

\* eval(filter) for the configured Filter.
EvalFilter(row) == row.flag = "Y"

\* row[org_acronym_col]
AcronymCell(cfg, row) == IF cfg.acr_col = "name" THEN row.org ELSE row.acr

\* ------------------------------------- pipeline.py: preprocess_country, a row
\* The state one pass of the row loop reads and writes.
LoopState(c) ==
  [map |-> org_map, infos |-> infos, data |-> data,
   otd |-> org_type_data, otu |-> org_type_unmatched,
   sd |-> sector_data, su |-> sector_unmatched,
   errors |-> errors, rows |-> rows[c], norows |-> norows, raised |-> FALSE]

\* The row loop keeping only the rows without errors.
RetainClean(retained, row) == IF row.Error # <<>> THEN retained ELSE Append(retained, row)

\* rows.append(row)
Retain(retained, row) == Append(retained, row)

\* "* Org matching": add_or_match_org on the identity of the row.
OrgMatching(st, om, inf, id) ==
  LET a == add_or_match_org(inf, st.data, id)
  IN [st EXCEPT !.map = om, !.infos = a.infos, !.data = a.data]

\* The loop state once complete_org_info has returned k.
OrgCompleted(st, g, k) ==
  OrgMatching([st EXCEPT !.otd = k.lookup, !.otu = k.unmatched, !.errors = k.errors],
              g.map, k.infos, g.ret)

\* "* Org processing" once get_org_info has returned g: complete_org_info
\* unless the identity is complete, then add_or_match_org.  Reading a
\* configured org type column that the file does not have raises KeyError.
OrgResolved(st, c, cfg, org_acronym, row, g) ==
  IF g.infos[g.ret].complete THEN OrgMatching(st, g.map, g.infos, g.ret)
  ELSE IF cfg.type_col = "bad"
    THEN [st EXCEPT !.map = g.map, !.infos = g.infos, !.raised = TRUE]
  ELSE OrgCompleted(st, g,
         complete_org_info(g.infos, st.otd, st.otu, st.errors, g.ret, org_acronym,
                           IF cfg.type_col = "none" THEN None ELSE row.typ,
                           DatasetName(c)))

\* "* Org processing" and "* Org matching" of a row without errors.
OrgProcessing(st, c, cfg, org_str, org_acronym, row) ==
  OrgResolved(st, c, cfg, org_acronym, row, get_org_info(st.map, st.infos, org_str, c))

\* The sector cell left as the provider wrote it when no code is found.
SectorCellKept(known, sector_code, sector_orig) ==
  IF known THEN sector_code ELSE sector_orig

\* row[sector_col] after "* Sector processing": the code found, "" when the
\* sector is missing or unknown.
SectorCell(known, sector_code, sector_orig) == IF known THEN sector_code ELSE ""

\* One pass of "for row in iterator" in preprocess_country.
PreprocessRow(st, c, cfg, row) ==
  IF cfg.filter /\ ~EvalFilter(row) THEN st
  ELSE IF IsHxlRow(row) THEN st
  ELSE
    LET n == st.norows + 1
        org_acronym == Strip(AcronymCell(cfg, row))
        org_str == IF Truthy(row.org) THEN Strip(row.org) ELSE org_acronym
        noOrg == ~Truthy(org_str)
        err1 == IF noOrg THEN << <<"No org">> >> ELSE <<>>
        errs1 == IF noOrg
                   THEN st.errors \cup {Message(DatasetName(c), "missing organisation", ToString(n))}
                 ELSE st.errors
        sector_orig == row.sector
        sec == get_code_from_name(sector_orig, st.sd, st.su, TRUE)
        known == Truthy(sector_orig) /\ Truthy(sec.code)
        err2 == IF ~Truthy(sector_orig) THEN Append(err1, <<"No sector">>)
                ELSE IF ~known THEN Append(err1, <<"Unknown sector", sector_orig>>)
                ELSE err1
        errs2 == IF ~Truthy(sector_orig)
                   THEN errs1 \cup {Message(DatasetName(c), "missing sector", org_str)}
                 ELSE IF ~known
                   THEN errs1 \cup {MissingValue(DatasetName(c), "sector", sector_orig)}
                 ELSE errs1
        kept_row == [org |-> IF Truthy(row.org) THEN org_str ELSE row.org,
                     acr |-> row.acr, typ |-> row.typ,
                     sector |-> SectorCell(known, sec.code, sector_orig),
                     adm1 |-> row.adm1, flag |-> row.flag, note |-> row.note,
                     Warning |-> <<>>, Error |-> err2]
        st2 == [st EXCEPT !.norows = n, !.errors = errs2,
                          !.sd = IF Truthy(sector_orig) THEN sec.lookup ELSE @,
                          !.su = IF Truthy(sector_orig) THEN sec.unmatched ELSE @,
                          !.rows = Retain(@, kept_row)]
    IN IF err2 # <<>> THEN st2 ELSE OrgProcessing(st2, c, cfg, org_str, org_acronym, kept_row)

\* ------------------------------------ pipeline.py: process_country, a row
\* hdx.scraper.framework.utilities.hapi_admins.complete_admins for one admin
\* name column and no admin code column: the code and name the provider
\* name resolves to (blank when it resolves to none, with a warning), and the
\* level reached.
complete_admins(c, provider_adm_names) ==
  LET name == provider_adm_names[1]
      hit == c = "AFG" /\ name = "Kabul"
  IN [adm_codes |-> << IF hit THEN "AF01" ELSE "" >>,
      adm_names |-> << IF hit THEN "Kabul" ELSE "" >>,
      adm_level |-> IF name = "" THEN 0 ELSE 1,
      warnings |-> IF name # "" /\ ~hit THEN << <<"unknown admin", name>> >> ELSE <<>>]

\* pad_admins: the lists are padded with "" up to admin level 2.
pad_admins(l) == IF Len(l) >= 2 THEN l ELSE IF Len(l) = 1 THEN Append(l, "") ELSE <<"", "">>

\* get_adm_info keeping the provider's admin name as the cell has it.
get_adm_info_unstripped(c, row) ==
  LET provider_adm_names == << IF Truthy(row.adm1) THEN row.adm1 ELSE "" >>
      r == complete_admins(c, provider_adm_names)
  IN [provider_adm_names |-> provider_adm_names, adm_codes |-> r.adm_codes,
      adm_names |-> r.adm_names, adm_level |-> r.adm_level, warnings |-> r.warnings]

\* Pipeline.get_adm_info for the configured admin name column.
get_adm_info(c, row) ==
  LET provider_adm_names == << IF Truthy(row.adm1) THEN Strip(row.adm1) ELSE "" >>
      r == complete_admins(c, provider_adm_names)
  IN [provider_adm_names |-> provider_adm_names, adm_codes |-> r.adm_codes,
      adm_names |-> r.adm_names, adm_level |-> r.adm_level, warnings |-> r.warnings]

\* The dedup key of process_country, from the record built for a row.
RecordKey(rec) ==
  <<rec.location_code, rec.provider_admin1_name, rec.provider_admin2_name,
    rec.admin1_code, rec.admin2_code, rec.org_name, rec.org_acronym, rec.sector_code,
    rec.reference_period_start>>

\* Row(...) as process_country builds it.  The arguments are positional: the
\* field called org_name receives org_info.acronym and the field called
\* org_acronym receives org_info.canonical_name.
OutputRow(c, row, org_info, adm) ==
  LET level == IF adm.adm_level > 2 THEN 2 ELSE adm.adm_level
      prov == IF adm.adm_level > 2 THEN adm.provider_adm_names
              ELSE pad_admins(adm.provider_adm_names)
      codes == IF adm.adm_level > 2 THEN adm.adm_codes ELSE pad_admins(adm.adm_codes)
      names == IF adm.adm_level > 2 THEN adm.adm_names ELSE pad_admins(adm.adm_names)
  IN [location_code |-> c,
      has_hrp |-> "Y",
      in_gho |-> "Y",
      provider_admin1_name |-> prov[1],
      provider_admin2_name |-> prov[2],
      admin1_code |-> codes[1],
      admin1_name |-> names[1],
      admin2_code |-> codes[2],
      admin2_name |-> names[2],
      admin_level |-> level,
      org_name |-> org_info.acronym,
      org_acronym |-> org_info.canonical_name,
      org_type_description |-> get_org_type_description(org_info.type_code),
      sector_code |-> row.sector,
      sector_name |-> CodeToName(row.sector),
      reference_period_start |-> TimePeriod(c).start,
      reference_period_end |-> TimePeriod(c).end,
      dataset_id |-> DatasetName(c),
      resource_id |-> DatasetName(c),
      warning |-> row.Warning \o adm.warnings,
      error |-> row.Error]

\* output_rows keeping the first record of a key.
DedupPutFirst(output_rows, key, output_row) ==
  IF key \in DOMAIN output_rows THEN output_rows ELSE Put(output_rows, key, output_row)

\* output_rows[key] = output_row
DedupPut(output_rows, key, output_row) == Put(output_rows, key, output_row)

\* One pass of "for row in rows" in process_country; st holds the org map,
\* the heap, the diagnostics and output_rows.  Reading an admin name column
\* that the file does not have raises KeyError.
ProcessRow(st, c, cfg, row) ==
  LET org_acronym == AcronymCell(cfg, row)
      org_str == IF Truthy(row.org) THEN row.org ELSE org_acronym
      g == get_org_info(st.map, st.infos, org_str, c)
      org_info == IF Truthy(org_str) THEN g.infos[g.ret] ELSE blank_org_info
      st2 == IF Truthy(org_str) THEN [st EXCEPT !.map = g.map, !.infos = g.infos] ELSE st
      adm == get_adm_info(c, row)
      output_row == OutputRow(c, row, org_info, adm)
      warned == {Message(DatasetName(c), "warning", adm.warnings[i][2]) :
                   i \in 1..Len(adm.warnings)}
  IN IF ~cfg.adm_ok THEN [st2 EXCEPT !.raised = TRUE]
     ELSE [st2 EXCEPT !.errors = @ \cup warned,
                      !.output_rows = DedupPut(@, RecordKey(output_row), output_row)]

RECURSIVE ProcessRows(_, _, _, _)
ProcessRows(st, c, cfg, rws) ==
  IF rws = <<>> \/ st.raised THEN st
  ELSE ProcessRows(ProcessRow(st, c, cfg, Head(rws)), c, cfg, Tail(rws))

\* Pipeline.process_country(countryiso3, datasetinfo): the loop over
\* datasetinfo["rows"].
process_country(c, cfg, rws) ==
  ProcessRows([map |-> org_map, infos |-> infos, errors |-> errors,
               output_rows |-> EmptyDict, raised |-> FALSE], c, cfg, rws)

\* ---------------------------------------------- Spec: Pipeline.process()
\* The sheets of the pipeline runs: a row for each country, excluded or not,
\* with its automated cells filled by an earlier run.  The rows configure no
\* Start Date Column and no End Date Column, so preprocess_country leaves
\* the automated dates alone.
SheetsRead ==
  { [c \in {CountrySeq[i] : i \in 1..Len(CountrySeq)} |->
       ReadRow(exclude[c], DatasetName(c), "3w.xlsx", "xlsx", "15/01/2020", "30/06/2023")] :
    exclude \in [{CountrySeq[i] : i \in 1..Len(CountrySeq)} -> {"", "Y"}] }

\* Nothing searched: find_datasets_resources has not run; the sheet as read.
InitSheetRead ==
  /\ countryiso3s_to_process = {}
  /\ datasets_found = <<>>
  /\ fi = 1
  /\ datasets_by_iso3 = [k \in {} |-> None]
  /\ spreadsheet_rows \in SheetsRead
  /\ email_text = <<>>
  /\ worksheet \in BOOLEAN
  /\ earliest_start_date = <<>>
  /\ latest_end_date = <<>>
  /\ sheet_row = [start |-> spreadsheet_rows[DatesCountry].start,
                  end |-> spreadsheet_rows[DatesCountry].end]

Init ==
  /\ org_map = EmptyDict
  /\ infos = <<>>
  /\ data = EmptyDict
  /\ org_type_data = OrgTypePopulate
  /\ org_type_unmatched = <<>>
  /\ sector_data = SectorPopulate
  /\ sector_unmatched = <<>>
  /\ errors = {}
  /\ pc = "start"
  /\ lastOp = NoOp
  /\ returned = EmptyDict
  /\ ncalls = 0
  /\ InitPipe
  /\ InitVocabIdle
  /\ InitAdmIdle
  /\ InitGenIdle
  /\ InitSheetRead

Remove(d, k) == [x \in (DOMAIN d) \ {k} |-> d[x]]

\* The reference tables of the pipeline runs: at most one row, of global scope.
PipelineTables ==
  {t \in RefTables : Len(t) <= 1 /\ \A i \in 1..Len(t) : t[i].country = None}

\* process(): self._org.populate()
Populate ==
  /\ pc = "start"
  /\ \E table \in PipelineTables :
       LET st == PopulateRows([map |-> org_map, infos |-> infos], table)
       IN /\ org_map' = st.map
          /\ infos' = st.infos
  /\ pc' = "pre"
  /\ UNCHANGED <<data, org_type_data, org_type_unmatched, sector_data, sector_unmatched,
                 errors>>
  /\ UNCHANGED pipeVars
  /\ UNCHANGED callVars
  /\ UNCHANGED vocabVars
  /\ UNCHANGED admVars
  /\ UNCHANGED datesVars
  /\ UNCHANGED genVars
  /\ UNCHANGED sheetVars
  /\ UNCHANGED findVars

\* What process() does with the end of preprocess_country: the country
\* enters _iso3_to_datasetinfo on success only.
AfterPreprocess(iso3, c, result) == IF result = "ok" THEN Append(iso3, c) ELSE iso3

\* process(): whether the country is passed over: it is not among the
\* countries to process, or get_datasetinfo returns None for its row (Exclude
\* is "Y").  The rows of the model configure the columns get_datasetinfo
\* requires, so it does not return {}.
Skipped(c) ==
  \/ countryiso3s_to_process # {} /\ c \notin countryiso3s_to_process
  \/ spreadsheet_rows[c].exclude = "Y"

\* process(): the next country of the sheet is passed over.
SkipCountry ==
  /\ pc = "pre"
  /\ ci <= Len(CountrySeq)
  /\ Skipped(CountrySeq[ci])
  /\ ci' = ci + 1
  /\ UNCHANGED <<org_map, infos, data, org_type_data, org_type_unmatched, sector_data,
                 sector_unmatched, errors, pc, config, source, rows, kept, norows,
                 iso3_to_datasetinfo, outcome, produced, out_rows, start_date, end_date,
                 nread>>
  /\ UNCHANGED callVars
  /\ UNCHANGED vocabVars
  /\ UNCHANGED admVars
  /\ UNCHANGED datesVars
  /\ UNCHANGED genVars
  /\ UNCHANGED sheetVars
  /\ UNCHANGED findVars

\* preprocess_country up to the row loop for the configuration cfg and a
\* file that starts with first: the file has no row ("none"), its first row
\* is the row of its HXL tags ("tags"), or its first row is a data row
\* ("data").  "false": the format is not allowed and
\* False is returned with a warning; "raised": with HXL tags the first row of
\* the file is taken as the tag row: next(iterator) raises StopIteration on
\* a file without rows, and the lookup of the configured tags raises
\* KeyError when the row is a data row, which process() records as a
\* traceback; "rows": the row loop is reached, for the rows after the tag
\* row when there are HXL tags.
preprocess_start(errs, c, cfg, first) ==
  LET f == get_format(errs, DatasetName(c), cfg.resource)
  IN IF ~f.success
       THEN [result |-> "false",
             errors |-> f.errors \cup
                          {Message(DatasetName(c), "warning",
                                   "Resource " \o cfg.resource.name \o " has format "
                                   \o f.format \o " which is not allowed")}]
     ELSE IF cfg.use_hxl /\ first # "tags"
       THEN [result |-> "raised",
             errors |-> f.errors \cup {Message(DatasetName(c), "error", "traceback")}]
     ELSE [result |-> "rows", errors |-> f.errors]

\* process(): the next configured country; preprocess_country up to the row
\* loop.
PreprocessStart ==
  /\ pc = "pre"
  /\ ci <= Len(CountrySeq)
  /\ ~Skipped(CountrySeq[ci])
  /\ LET c == CountrySeq[ci] IN
     \E cfg \in Configs, first \in {"none", "tags", "data"} :
       LET r == preprocess_start(errors, c, cfg, first) IN
       /\ config' = Put(config, c, cfg)
       /\ errors' = r.errors
       /\ IF r.result = "rows"
            THEN /\ pc' = "rows"
                 /\ rows' = Put(rows, c, <<>>)
                 /\ source' = Put(source, c, <<>>)
                 /\ norows' = 0
                 /\ UNCHANGED <<outcome, iso3_to_datasetinfo, ci>>
            ELSE /\ outcome' = Put(outcome, c, r.result)
                 /\ iso3_to_datasetinfo' = AfterPreprocess(iso3_to_datasetinfo, c, r.result)
                 /\ ci' = ci + 1
                 /\ UNCHANGED <<pc, rows, source, norows>>
  /\ UNCHANGED <<org_map, infos, data, org_type_data, org_type_unmatched, sector_data,
                 sector_unmatched, kept, produced, out_rows, start_date, end_date, nread>>
  /\ UNCHANGED callVars
  /\ UNCHANGED vocabVars
  /\ UNCHANGED admVars
  /\ UNCHANGED datesVars
  /\ UNCHANGED genVars
  /\ UNCHANGED sheetVars
  /\ UNCHANGED findVars

\* preprocess_country: the reader yields one more row.  An exception ends
\* preprocess_country; process() catches it and records the traceback
\* against the country's dataset.
PreprocessNext ==
  /\ pc = "rows"
  /\ nread < MaxRows
  /\ ci = 1 \/ Len(source[CountrySeq[ci]]) < MaxRowsLater
  /\ LET c == CountrySeq[ci] IN
     \E row \in SrcRows :
       LET st == PreprocessRow(LoopState(c), c, config[c], row) IN
       /\ source' = [source EXCEPT ![c] = Append(@, row)]
       /\ org_map' = st.map
       /\ infos' = st.infos
       /\ data' = st.data
       /\ org_type_data' = st.otd
       /\ org_type_unmatched' = st.otu
       /\ sector_data' = st.sd
       /\ sector_unmatched' = st.su
       /\ norows' = st.norows
       /\ IF st.raised
            THEN /\ errors' = st.errors \cup {Message(DatasetName(c), "error", "traceback")}
                 /\ rows' = Remove(rows, c)
                 /\ outcome' = Put(outcome, c, "raised")
                 /\ iso3_to_datasetinfo' = AfterPreprocess(iso3_to_datasetinfo, c, "raised")
                 /\ pc' = "pre"
                 /\ ci' = ci + 1
            ELSE /\ errors' = st.errors
                 /\ rows' = [rows EXCEPT ![c] = st.rows]
                 /\ UNCHANGED <<outcome, iso3_to_datasetinfo, pc, ci>>
  /\ nread' = nread + 1
  /\ UNCHANGED <<config, kept, produced, out_rows, start_date, end_date>>
  /\ UNCHANGED callVars
  /\ UNCHANGED vocabVars
  /\ UNCHANGED admVars
  /\ UNCHANGED datesVars
  /\ UNCHANGED genVars
  /\ UNCHANGED sheetVars
  /\ UNCHANGED findVars

\* preprocess_country: the reader is exhausted; datasetinfo["rows"] = rows
\* and True is returned.
PreprocessEnd ==
  /\ pc = "rows"
  /\ LET c == CountrySeq[ci] IN
       /\ outcome' = Put(outcome, c, "ok")
       /\ iso3_to_datasetinfo' = AfterPreprocess(iso3_to_datasetinfo, c, "ok")
  /\ pc' = "pre"
  /\ ci' = ci + 1
  /\ UNCHANGED <<org_map, infos, data, org_type_data, org_type_unmatched, sector_data,
                 sector_unmatched, errors, config, source, rows, kept, norows, produced,
                 out_rows, start_date, end_date, nread>>
  /\ UNCHANGED callVars
  /\ UNCHANGED vocabVars
  /\ UNCHANGED admVars
  /\ UNCHANGED datesVars
  /\ UNCHANGED genVars
  /\ UNCHANGED sheetVars
  /\ UNCHANGED findVars

\* Sheet.write: nothing without a worksheet; otherwise the automated cells
\* of every country outside countryiso3s are blanked and the rows written to
\* the worksheet.  The rows hold every header, as read_existing builds them.
write(attached, sheet, countryiso3s) ==
  IF ~attached THEN sheet
  ELSE [c \in DOMAIN sheet |->
          IF c \notin countryiso3s
            THEN [sheet[c] EXCEPT !.dataset = "", !.resource = "", !.format = "",
                                  !.start = "", !.end = ""]
          ELSE sheet[c]]

\* process(): every country preprocessed; the sheet is written with the
\* countries of _datasets_by_iso3 and the email sent, then the production
\* loop starts.
StartProduction ==
  /\ pc = "pre"
  /\ ci > Len(CountrySeq)
  /\ pc' = "prod"
  /\ ci' = 1
  /\ spreadsheet_rows' = write(worksheet, spreadsheet_rows, DOMAIN datasets_by_iso3)
  /\ sheet_row' = IF DatesCountry \in DOMAIN spreadsheet_rows'
                    THEN [start |-> spreadsheet_rows'[DatesCountry].start,
                          end |-> spreadsheet_rows'[DatesCountry].end]
                  ELSE sheet_row
  /\ UNCHANGED <<org_map, infos, data, org_type_data, org_type_unmatched, sector_data,
                 sector_unmatched, errors, config, source, rows, kept, norows,
                 iso3_to_datasetinfo, outcome, produced, out_rows, start_date, end_date,
                 nread>>
  /\ UNCHANGED callVars
  /\ UNCHANGED vocabVars
  /\ UNCHANGED admVars
  /\ UNCHANGED <<earliest_start_date, latest_end_date>>
  /\ UNCHANGED genVars
  /\ UNCHANGED sheetVars
  /\ UNCHANGED <<countryiso3s_to_process, datasets_found, fi, datasets_by_iso3>>

Min(a, b) == IF a < b THEN a ELSE b

\* The running end date replaced by each country's end date.
MaxLast(a, b) == b

Max(a, b) == IF a > b THEN a ELSE b

\* process(): process_country for the next country of _iso3_to_datasetinfo.
\* An exception of process_country leaves process().
ProcessCountry ==
  /\ pc = "prod"
  /\ ci <= Len(iso3_to_datasetinfo)
  /\ LET c == iso3_to_datasetinfo[ci]
         st == process_country(c, config[c], rows[c])
     IN /\ org_map' = st.map
        /\ infos' = st.infos
        /\ kept' = Put(kept, c, rows[c])
        /\ IF st.raised
             THEN /\ pc' = "raised"
                  /\ UNCHANGED <<errors, rows, produced, out_rows, start_date, end_date, ci>>
             ELSE /\ errors' = st.errors
                  /\ out_rows' = out_rows \cup {st.output_rows[k] : k \in DOMAIN st.output_rows}
                  /\ rows' = Remove(rows, c)
                  /\ produced' = Append(produced, c)
                  /\ start_date' = Min(start_date, TimePeriod(c).start)
                  /\ end_date' = Max(end_date, TimePeriod(c).end)
                  /\ ci' = ci + 1
                  /\ pc' = IF ci + 1 > Len(iso3_to_datasetinfo) THEN "done" ELSE "prod"
  /\ UNCHANGED <<data, org_type_data, org_type_unmatched, sector_data, sector_unmatched,
                 config, source, norows, iso3_to_datasetinfo, outcome, nread>>
  /\ UNCHANGED callVars
  /\ UNCHANGED vocabVars
  /\ UNCHANGED admVars
  /\ UNCHANGED datesVars
  /\ UNCHANGED genVars
  /\ UNCHANGED sheetVars
  /\ UNCHANGED findVars

\* process(): no country reached the production pass.
NothingToProduce ==
  /\ pc = "prod"
  /\ Len(iso3_to_datasetinfo) = 0
  /\ pc' = "done"
  /\ UNCHANGED <<org_map, infos, data, org_type_data, org_type_unmatched, sector_data,
                 sector_unmatched, errors, config, ci, source, rows, kept, norows,
                 iso3_to_datasetinfo, outcome, produced, out_rows, start_date, end_date,
                 nread>>
  /\ UNCHANGED callVars
  /\ UNCHANGED vocabVars
  /\ UNCHANGED admVars
  /\ UNCHANGED datesVars
  /\ UNCHANGED genVars
  /\ UNCHANGED sheetVars
  /\ UNCHANGED findVars

\* Pipeline.generate_3w_dataset: None when len(self._rows) == 1, otherwise
\* the dataset with its resource generated from self._rows.  _rows starts
\* empty and holds the records only; the records of the output are distinct,
\* so their number is the length of _rows.
generate_3w_dataset(rws) == IF Cardinality(rws) = 1 THEN None ELSE "dataset"

\* Pipeline.generate_3w_dataset called on the pipeline once process() has
\* returned, as the test of the pipeline calls it.
Generate3wDataset ==
  /\ pc = "done"
  /\ dataset_3w = "pending"
  /\ dataset_3w' = generate_3w_dataset(out_rows)
  /\ UNCHANGED <<org_map, infos, data, org_type_data, org_type_unmatched, sector_data,
                 sector_unmatched, errors, pc>>
  /\ UNCHANGED pipeVars
  /\ UNCHANGED callVars
  /\ UNCHANGED vocabVars
  /\ UNCHANGED admVars
  /\ UNCHANGED datesVars
  /\ UNCHANGED sheetVars
  /\ UNCHANGED findVars

Next ==
  \/ Populate
  \/ SkipCountry
  \/ PreprocessStart
  \/ PreprocessNext
  \/ PreprocessEnd
  \/ StartProduction
  \/ ProcessCountry
  \/ NothingToProduce
  \/ Generate3wDataset

Spec == Init /\ [][Next]_vars

\* ------------------------- SpecDates: preprocess_country with date columns
MaxDateRows == 3     \* rows the reader yields for the country (SpecDates)

\* A sheet row for the country: a Config with its Start Date Column and
\* End Date Column, each configured or not.
DateConfig(filter, startdate_col, enddate_col, resource, use_hxl) ==
  [acr_col |-> "own", type_col |-> "own", adm_ok |-> TRUE, resource |-> resource,
   filter |-> filter, use_hxl |-> use_hxl, startdate_col |-> startdate_col,
   enddate_col |-> enddate_col]

\* Every choice of filter and date columns for a resource whose url ends
\* with its HDX format; both date columns for the other resources and for
\* HXL tags.
DateConfigs ==
  {DateConfig(f, sc, ec, Resources.same, FALSE) :
     f \in BOOLEAN, sc \in BOOLEAN, ec \in BOOLEAN}
  \cup {DateConfig(FALSE, TRUE, TRUE, Resources.other, FALSE),
        DateConfig(FALSE, TRUE, TRUE, Resources.pdf, FALSE),
        DateConfig(FALSE, TRUE, TRUE, Resources.same, TRUE)}

\* The cells of the start date and end date columns of a row.
DateCells == { <<"", "">>, <<"2020-01-15", "2023-06-30">>, <<"2023-06-30", "2020-01-15">>,
               <<"1999-05-01", "1999-05-01">>, <<"garbage", "garbage">> }

\* The other cells of a row.
DateBaseRows == { SrcRow("WHO", "WHO", "", "Health", "Kabul", "Y", "a"),
                  SrcRow("Who", "who", "Observer", "Health", "Kabul", "N", "a"),
                  SrcRow("WHO", "", "", "Xyz", "Kabul", "N", "a") }

\* A source row with date cells.
DateRow(base, cells) ==
  [org |-> base.org, acr |-> base.acr, typ |-> base.typ, sector |-> base.sector,
   adm1 |-> base.adm1, flag |-> base.flag, note |-> base.note,
   start |-> cells[1], end |-> cells[2]]

DateRows ==
  {DateRow(base, cells) : base \in DateBaseRows, cells \in DateCells} \cup
  {DateRow(SrcRow("#org", "", "", "#sector", "", "Y", "a"), <<"2020-01-15", "2023-06-30">>)}

\* hdx.utilities.dateparse.parse_date: the date a cell parses to, with its
\* year and its position on the scale of default_date..default_enddate;
\* <<>> when dateutil raises ParserError.
parse_date(value) ==
  CASE value = "1999-05-01" -> << [year |-> 1999, date |-> 1] >>
    [] value = "2020-01-15" -> << [year |-> 2020, date |-> 4] >>
    [] value = "2023-06-30" -> << [year |-> 2023, date |-> 6] >>
    [] OTHER -> <<>>

\* date.strftime("%d/%m/%Y")
strftime(date) ==
  CASE date = default_date -> "01/01/1"
    [] date = 1 -> "01/05/1999"
    [] date = 4 -> "15/01/2020"
    [] date = 6 -> "30/06/2023"
    [] date = default_enddate -> "31/12/9999"

\* The start date block of the row loop: the earliest start date after it.
TrackStart(cfg, row, earliest) ==
  LET parsed == parse_date(row.start)
  IN IF ~cfg.startdate_col \/ ~Truthy(row.start) THEN earliest
     ELSE IF parsed = <<>> THEN earliest
     ELSE IF parsed[1].year < 2000 THEN earliest
     ELSE IF parsed[1].date < earliest[1] THEN <<parsed[1].date>>
     ELSE earliest

\* The end date block of the row loop: the latest end date after it.
TrackEnd(cfg, row, latest) ==
  LET parsed == parse_date(row.end)
  IN IF ~cfg.enddate_col \/ ~Truthy(row.end) THEN latest
     ELSE IF parsed = <<>> THEN latest
     ELSE IF parsed[1].date > latest[1] THEN <<parsed[1].date>>
     ELSE latest

\* The two date blocks of the row loop.
TrackDates(cfg, row, earliest, latest) ==
  [earliest |-> TrackStart(cfg, row, earliest), latest |-> TrackEnd(cfg, row, latest)]

\* The row loop tracking the dates of a row before it tests the filter.
PreprocessDatesFirst(cfg, row, earliest, latest) == TrackDates(cfg, row, earliest, latest)

\* One pass of the row loop up to the date blocks: the filter, the HXL tag
\* row test, then the dates.
PreprocessDates(cfg, row, earliest, latest) ==
  IF cfg.filter /\ ~EvalFilter(row) THEN [earliest |-> earliest, latest |-> latest]
  ELSE IF IsHxlRow(row) THEN [earliest |-> earliest, latest |-> latest]
  ELSE TrackDates(cfg, row, earliest, latest)

\* Sheet.add_update_dates for one automated date of the sheet row.
add_update_date(current, date) ==
  IF current = None THEN ""
  ELSE IF current # date THEN date
  ELSE current

\* The line add_update_dates appends to email_text for one automated date:
\* none when the row has no such field or the value is the same.
add_update_text(email, c, what, current, date) ==
  IF current # None /\ current # date THEN Append(email, <<c, what, current, date>>)
  ELSE email

\* Sheet.add_update_dates(countryiso3, start_date, end_date) on the row of
\* the country: the row and email_text after it.
add_update_dates(row, email, c, start, end) ==
  [row |-> [start |-> add_update_date(row.start, start),
            end |-> add_update_date(row.end, end)],
   email_text |-> add_update_text(add_update_text(email, c, "start date", row.start, start),
                                  c, "end date", row.end, end)]

\* The sheet row may or may not have automated dates already.
SheetRows == { [start |-> None, end |-> None], [start |-> "", end |-> ""],
               [start |-> "15/01/2020", end |-> "15/01/2020"] }

InitDates ==
  /\ org_map = EmptyDict
  /\ infos = <<>>
  /\ data = EmptyDict
  /\ org_type_data = OrgTypePopulate
  /\ org_type_unmatched = <<>>
  /\ sector_data = SectorPopulate
  /\ sector_unmatched = <<>>
  /\ errors = {}
  /\ pc = "dates_pre"
  /\ lastOp = NoOp
  /\ returned = EmptyDict
  /\ ncalls = 0
  /\ InitPipe
  /\ InitVocabIdle
  /\ earliest_start_date = <<>>
  /\ latest_end_date = <<>>
  /\ sheet_row \in SheetRows
  /\ InitAdmIdle
  /\ InitGenIdle
  /\ InitSheetIdle
  /\ InitFindIdle

\* preprocess_country up to the row loop; when it ends there (the format is
\* not allowed, or the HXL tag row raises) no date has been tracked.
DatesStart ==
  /\ pc = "dates_pre"
  /\ \E cfg \in DateConfigs, first \in {"none", "tags", "data"} :
       LET c == DatesCountry
           r == preprocess_start(errors, c, cfg, first)
       IN /\ config' = Put(config, c, cfg)
          /\ errors' = r.errors
          /\ IF r.result = "rows"
               THEN /\ earliest_start_date' =
                         IF cfg.startdate_col THEN <<default_enddate>> ELSE <<>>
                    /\ latest_end_date' = IF cfg.enddate_col THEN <<default_date>> ELSE <<>>
                    /\ rows' = Put(rows, c, <<>>)
                    /\ source' = Put(source, c, <<>>)
                    /\ norows' = 0
                    /\ pc' = "dates"
                    /\ UNCHANGED <<outcome, iso3_to_datasetinfo>>
               ELSE /\ outcome' = Put(outcome, c, r.result)
                    /\ iso3_to_datasetinfo' = AfterPreprocess(iso3_to_datasetinfo, c, r.result)
                    /\ pc' = "dates_out"
                    /\ UNCHANGED <<earliest_start_date, latest_end_date, rows, source,
                                   norows>>
  /\ UNCHANGED <<org_map, infos, data, org_type_data, org_type_unmatched, sector_data,
                 sector_unmatched, ci, kept, produced, out_rows, start_date, end_date,
                 nread, sheet_row>>
  /\ UNCHANGED callVars
  /\ UNCHANGED vocabVars
  /\ UNCHANGED admVars
  /\ UNCHANGED genVars
  /\ UNCHANGED sheetVars
  /\ UNCHANGED findVars

\* preprocess_country: one pass of the row loop.
DatesRow ==
  /\ pc = "dates"
  /\ nread < MaxDateRows
  /\ LET c == DatesCountry IN
     \E row \in DateRows :
       LET st == PreprocessRow(LoopState(c), c, config[c], row)
           d == PreprocessDates(config[c], row, earliest_start_date, latest_end_date)
       IN /\ source' = [source EXCEPT ![c] = Append(@, row)]
          /\ earliest_start_date' = d.earliest
          /\ latest_end_date' = d.latest
          /\ org_map' = st.map
          /\ infos' = st.infos
          /\ data' = st.data
          /\ org_type_data' = st.otd
          /\ org_type_unmatched' = st.otu
          /\ sector_data' = st.sd
          /\ sector_unmatched' = st.su
          /\ norows' = st.norows
          /\ errors' = st.errors
          /\ rows' = [rows EXCEPT ![c] = st.rows]
  /\ nread' = nread + 1
  /\ UNCHANGED <<pc, config, ci, kept, iso3_to_datasetinfo, outcome, produced, out_rows,
                 start_date, end_date, sheet_row>>
  /\ UNCHANGED callVars
  /\ UNCHANGED vocabVars
  /\ UNCHANGED admVars
  /\ UNCHANGED genVars
  /\ UNCHANGED sheetVars
  /\ UNCHANGED findVars

\* preprocess_country after the row loop: with a date column configured the
\* dates are formatted and handed to Sheet.add_update_dates; formatting a
\* date that is None raises, which process() catches and records.
DatesEnd ==
  /\ pc = "dates"
  /\ LET c == DatesCountry
         cfg == config[c]
     IN IF (cfg.startdate_col \/ cfg.enddate_col)
           /\ (earliest_start_date = <<>> \/ latest_end_date = <<>>)
          THEN /\ errors' = errors \cup {Message(DatasetName(c), "error", "traceback")}
               /\ rows' = Remove(rows, c)
               /\ outcome' = Put(outcome, c, "raised")
               /\ iso3_to_datasetinfo' = AfterPreprocess(iso3_to_datasetinfo, c, "raised")
               /\ UNCHANGED <<sheet_row, email_text, worksheet>>
          ELSE /\ IF cfg.startdate_col \/ cfg.enddate_col
                    THEN LET u == add_update_dates(sheet_row, email_text, c,
                                                   strftime(earliest_start_date[1]),
                                                   strftime(latest_end_date[1]))
                         IN /\ sheet_row' = u.row
                            /\ email_text' = u.email_text
                    ELSE UNCHANGED <<sheet_row, email_text>>
               /\ UNCHANGED worksheet
               /\ outcome' = Put(outcome, c, "ok")
               /\ iso3_to_datasetinfo' = AfterPreprocess(iso3_to_datasetinfo, c, "ok")
               /\ UNCHANGED <<errors, rows>>
  /\ pc' = "dates_end"
  /\ UNCHANGED <<org_map, infos, data, org_type_data, org_type_unmatched, sector_data,
                 sector_unmatched, config, ci, source, kept, norows, produced, out_rows,
                 start_date, end_date, nread, earliest_start_date, latest_end_date>>
  /\ UNCHANGED callVars
  /\ UNCHANGED vocabVars
  /\ UNCHANGED admVars
  /\ UNCHANGED genVars
  /\ UNCHANGED findVars

NextDates == DatesStart \/ DatesRow \/ DatesEnd

SpecDates == InitDates /\ [][NextDates]_vars

\* --------------------- SpecAdmin: the admin fields of a record, any columns
\* The pcode reference data (AdminLevel): the name of a pcode of a level of
\* a country, "" when the level has no such pcode.
PcodeName(c, level, pcode) ==
  CASE c = "AFG" /\ level = 1 /\ pcode = "AF01" -> "Kabul"
    [] c = "AFG" /\ level = 2 /\ pcode = "AF0101" -> "Paghman"
    [] c = "AFG" /\ level = 3 /\ pcode = "AF010101" -> "Pashai"
    [] OTHER -> ""

\* The pcode a provider name matches at a level, "" when it matches none.
NamePcode(c, level, name) ==
  CASE c = "AFG" /\ level = 1 /\ name = "Kabul" -> "AF01"
    [] c = "AFG" /\ level = 2 /\ name = "Paghman" -> "AF0101"
    [] c = "AFG" /\ level = 3 /\ name = "Pashai" -> "AF010101"
    [] OTHER -> ""

\* The parent of a pcode, "" when it has none.
PcodeParent(pcode) ==
  CASE pcode = "AF0101" -> "AF01"
    [] pcode = "AF010101" -> "AF0101"
    [] OTHER -> ""

\* complete_admins at one level: a given code is kept when the level has it
\* (a warning otherwise); without one the parent of the level below is taken
\* when that was resolved; without either the provider name is matched (a
\* warning when a name matches nothing).
ResolveLevel(c, level, name, given, child) ==
  LET valid == Truthy(given) /\ PcodeName(c, level, given) # ""
      pcode == IF valid THEN given
               ELSE IF PcodeParent(child) # "" THEN PcodeParent(child)
               ELSE NamePcode(c, level, name)
  IN [pcode |-> pcode,
      warnings |-> (IF Truthy(given) /\ ~valid THEN << <<"unknown pcode", given>> >> ELSE <<>>)
                   \o (IF name # "" /\ pcode = "" THEN << <<"unknown admin", name>> >>
                       ELSE <<>>)]

NoLevel == [pcode |-> "", warnings |-> <<>>]

\* hdx.scraper.framework.utilities.hapi_admins.complete_admins for any
\* number of admin name and admin code columns: the levels of
\* provider_adm_names are resolved from the deepest to the shallowest; the
\* level reached is the deepest one with a code or a provider name; entries of
\* adm_codes beyond the levels of provider_adm_names are left as they are,
\* and an adm_codes list shorter than provider_adm_names raises IndexError.
complete_admins_codes(c, provider_adm_names, adm_codes) ==
  LET n == Len(provider_adm_names)
      r3 == IF n >= 3 /\ Len(adm_codes) >= n
              THEN ResolveLevel(c, 3, provider_adm_names[3], adm_codes[3], "") ELSE NoLevel
      r2 == IF n >= 2 /\ Len(adm_codes) >= n
              THEN ResolveLevel(c, 2, provider_adm_names[2], adm_codes[2], r3.pcode)
            ELSE NoLevel
      r1 == IF Len(adm_codes) >= n
              THEN ResolveLevel(c, 1, provider_adm_names[1], adm_codes[1], r2.pcode)
            ELSE NoLevel
      rs == <<r1, r2, r3>>
      found == {i \in 1..n : i <= Len(adm_codes) /\
                  (Truthy(adm_codes[i]) \/ provider_adm_names[i] # "")}
  IN [raised |-> Len(adm_codes) < n,
      adm_codes |-> [i \in 1..Len(adm_codes) |->
                       IF i <= n THEN rs[i].pcode ELSE adm_codes[i]],
      adm_names |-> [i \in 1..n |-> PcodeName(c, i, rs[i].pcode)],
      adm_level |-> IF found = {} THEN 0 ELSE CHOOSE m \in found : \A x \in found : m >= x,
      warnings |-> r3.warnings \o r2.warnings \o r1.warnings]

\* Pipeline.get_adm_info for the configured admin code and admin name
\* columns; a column is the name of a cell of the row, "" an empty entry of
\* the column list.
get_adm_info_cols(c, row, adm_code_cols, adm_name_cols) ==
  LET provider_adm_names ==
        [i \in 1..Len(adm_name_cols) |->
           IF adm_name_cols[i] # "" /\ Truthy(row[adm_name_cols[i]])
             THEN Strip(row[adm_name_cols[i]]) ELSE ""]
      adm_codes ==
        IF adm_code_cols # <<>>
          THEN [i \in 1..Len(adm_code_cols) |->
                  IF adm_code_cols[i] # "" THEN row[adm_code_cols[i]] ELSE ""]
        ELSE [i \in 1..Len(adm_name_cols) |-> ""]
      r == complete_admins_codes(c, provider_adm_names, adm_codes)
  IN [provider_adm_names |-> provider_adm_names, adm_codes |-> r.adm_codes,
      adm_names |-> r.adm_names, adm_level |-> r.adm_level, warnings |-> r.warnings,
      raised |-> r.raised]

\* datasetinfo["Adm Name Columns"].split(","): an unset cell gives [""].
AdmNameCols == { <<"">>, <<"n1">>, <<"n1", "n2">>, <<"", "n2">>, <<"n1", "n2", "n3">> }

\* datasetinfo["Adm Code Columns"], split when set (<<>> is unset).
AdmCodeCols == { <<>>, <<"c1">>, <<"c1", "c2">>, <<"", "", "c3">>, <<"c1", "c2", "c3">> }

\* Sheet.get_datasetinfo: the country is ignored without admin code columns
\* and without admin name columns.
AdmCols ==
  {cols \in [code : AdmCodeCols, name : AdmNameCols] :
     ~(cols.code = <<>> /\ cols.name = <<"">>)}

\* The retained rows: the sector code and the cells of the admin columns.
AdmRows ==
  [sector : {"HEA"}, n1 : {"", "Kabul ", "Nowhere"}, n2 : {"", "Paghman"},
   n3 : {"", "Pashai"}, c1 : {"", "AF01", "garbage"}, c2 : {"", "AF0101", "garbage"},
   c3 : {"", "AF010101"}, Warning : {<<>>}, Error : {<<>>}]

InitAdmin ==
  /\ org_map = EmptyDict
  /\ infos = <<>>
  /\ data = EmptyDict
  /\ org_type_data = OrgTypePopulate
  /\ org_type_unmatched = <<>>
  /\ sector_data = SectorPopulate
  /\ sector_unmatched = <<>>
  /\ errors = {}
  /\ pc = "adm"
  /\ lastOp = NoOp
  /\ returned = EmptyDict
  /\ ncalls = 0
  /\ InitPipe
  /\ InitVocabIdle
  /\ InitDatesIdle
  /\ adm_cols \in AdmCols
  /\ adm_row \in {<<row>> : row \in AdmRows}
  /\ adm_record = <<>>
  /\ InitGenIdle
  /\ InitSheetIdle
  /\ InitFindIdle

\* process_country for the row, from "* Adm processing" to Row(...): the
\* record built, unless an exception was raised.
AdmRecord ==
  /\ pc = "adm"
  /\ LET c == DatesCountry
         adm == get_adm_info_cols(c, adm_row[1], adm_cols.code, adm_cols.name)
     IN IF adm.raised
          THEN /\ pc' = "raised"
               /\ UNCHANGED <<adm_record, errors>>
          ELSE /\ pc' = "done"
               /\ adm_record' = <<OutputRow(c, adm_row[1], blank_org_info, adm)>>
               /\ errors' = errors \cup {Message(DatasetName(c), "warning", adm.warnings[i][2]) :
                                          i \in 1..Len(adm.warnings)}
  /\ UNCHANGED <<org_map, infos, data, org_type_data, org_type_unmatched, sector_data,
                 sector_unmatched, adm_cols, adm_row>>
  /\ UNCHANGED callVars
  /\ UNCHANGED pipeVars
  /\ UNCHANGED vocabVars
  /\ UNCHANGED datesVars
  /\ UNCHANGED genVars
  /\ UNCHANGED sheetVars
  /\ UNCHANGED findVars

NextAdmin == AdmRecord

SpecAdmin == InitAdmin /\ [][NextAdmin]_vars

\* ------------------------------------------------ properties: the resolver
\* The fields of an identity that add_or_match_org aligns with the stored
\* record.
CanonicalFields(org_info) ==
  <<org_info.acronym, org_info.canonical_name, org_info.type_code>>

\* C1 (convergence): two identities reached through different raw strings
\* that have the same (normalised acronym, normalised name) and on each of
\* which add_or_match_org has been called carry the same acronym, canonical
\* name and type code.
Convergence ==
  \A k1, k2 \in DOMAIN org_map :
    LET a == infos[org_map[k1]]
        b == infos[org_map[k2]]
    IN (k1[2] # k2[2] /\ org_map[k1] # org_map[k2] /\ a.used /\ b.used
        /\ OrgKey(a) = OrgKey(b))
         => CanonicalFields(a) = CanonicalFields(b)

\* C2 (sticky type code): once the record stored under a key has a non-empty
\* type code no step changes it, and an add_or_match_org call on an identity
\* of that key leaves the identity with the stored type code.
StickyTypeCode ==
  [][\A key \in DOMAIN data :
       Truthy(data[key].type_code) =>
         /\ key \in DOMAIN data'
         /\ data'[key].type_code = data[key].type_code
         /\ (lastOp'.op = "add" /\ lastOp'.key = key)
              => infos'[lastOp'.id].type_code = data[key].type_code]_vars

\* add_or_match_org has just been called on an identity that carried a
\* non-empty type code different from the non-empty one stored under its key.
StickyTypeCodeWitness ==
  /\ lastOp.op = "add"
  /\ lastOp.key \in DOMAIN data
  /\ Truthy(lastOp.before[1].type_code)
  /\ Truthy(data[lastOp.key].type_code)
  /\ lastOp.before[1].type_code # data[lastOp.key].type_code
  /\ infos[lastOp.id].type_code = data[lastOp.key].type_code

\* The normalised acronym of a key of Org.data, no acronym counting as the
\* empty one.
EffectiveAcronym(normalised_acronym) ==
  IF normalised_acronym = None THEN "" ELSE normalised_acronym

\* C3: Org.data never holds two records whose normalised names are equal and
\* whose normalised acronyms are equal, an organisation without acronym
\* counting as having the empty acronym.
OneCanonicalOrgPerKey ==
  \A k1, k2 \in DOMAIN data :
    (EffectiveAcronym(k1[1]) = EffectiveAcronym(k2[1]) /\ k1[2] = k2[2]) => k1 = k2

\* C4 (idempotence): a get_org_info call returns the identity the first call
\* with the same raw string and country returned; if that identity was merged
\* at the earlier call and only lookups were made on it since, its canonical
\* name, acronym and type code are those of the earlier call.
Idempotence ==
  lastOp.op = "get" =>
    /\ lastOp.ret = returned[lastOp.key].id
    /\ lastOp.before # <<>> =>
         CanonicalFields(infos[lastOp.ret]) = CanonicalFields(lastOp.before[1])

\* get_org_info has just been called again for a string and country whose
\* identity was merged at an earlier call, other strings or countries having
\* been looked up as well.
IdempotenceWitness ==
  /\ lastOp.op = "get"
  /\ lastOp.before # <<>>
  /\ lastOp.before[1].used
  /\ \E k \in DOMAIN returned : k # lastOp.key

\* C5 (lookup order): get_org_info(raw, country) returns the first entry that
\* exists among (country, raw), (country, normalise(raw)), (None, raw),
\* (None, normalise(raw)); when none exists it makes a new incomplete
\* identity named raw with empty acronym and type code, cached under
\* (country, raw).
LookupOrder ==
  [][lastOp'.op = "get" =>
       LET country == lastOp'.key[1]
           raw == lastOp'.key[2]
           k1 == <<country, raw>>
           k2 == <<country, normalise(raw)>>
           k3 == <<None, raw>>
           k4 == <<None, normalise(raw)>>
           has(k) == k \in DOMAIN org_map
           ret == lastOp'.ret
       IN /\ has(k1) => ret = org_map[k1]
          /\ (~has(k1) /\ has(k2)) => ret = org_map[k2]
          /\ (~has(k1) /\ ~has(k2) /\ has(k3)) => ret = org_map[k3]
          /\ (~has(k1) /\ ~has(k2) /\ ~has(k3) /\ has(k4)) => ret = org_map[k4]
          /\ (~has(k1) /\ ~has(k2) /\ ~has(k3) /\ ~has(k4)) =>
               /\ ret \notin {org_map[k] : k \in DOMAIN org_map}
               /\ ret \notin DOMAIN infos
               /\ infos'[ret].canonical_name = raw
               /\ infos'[ret].acronym = ""
               /\ infos'[ret].type_code = ""
               /\ ~infos'[ret].complete
          /\ org_map'[k1] = ret]_vars

\* A lookup of "Who" in a country has just resolved to the global entry of
\* its normalised form, the table having no entry for the raw string or for
\* that country but one for another country.
LookupOrderWitness ==
  /\ lastOp.op = "get"
  /\ lastOp.key[2] = "Who"
  /\ <<lastOp.key[1], "who">> \notin DOMAIN org_map
  /\ <<None, "Who">> \notin DOMAIN org_map
  /\ <<None, "who">> \in DOMAIN org_map
  /\ lastOp.ret = org_map[<<None, "who">>]
  /\ \E k \in DOMAIN org_map : k[1] \notin {None, lastOp.key[1]} /\ org_map[k] # lastOp.ret

\* C6: after an add_or_match_org call the identity is used, and it is
\* complete exactly when its acronym and its type code are both non-empty.
CompleteIffBothFields ==
  lastOp.op = "add" =>
    /\ infos[lastOp.id].used
    /\ infos[lastOp.id].complete
         <=> (Truthy(infos[lastOp.id].acronym) /\ Truthy(infos[lastOp.id].type_code))

\* ------------------------------------------------ properties: the pipeline
InSeq(x, seq) == \E i \in 1..Len(seq) : seq[i] = x

\* The record process_country builds for a retained row of country c, the
\* organisations being as they are now.
RecordOf(c, row) ==
  LET org_str == IF Truthy(row.org) THEN row.org ELSE AcronymCell(config[c], row)
      g == get_org_info(org_map, infos, org_str, c)
  IN OutputRow(c, row, IF Truthy(org_str) THEN g.infos[g.ret] ELSE blank_org_info,
               get_adm_info(c, row))

\* The records of the output that are about country c.
RecordsOf(c) == {r \in out_rows : r.location_code = c}

\* C7 (deduplication): for every dedup key among the retained rows of a
\* produced country the output holds exactly one record, the one computed
\* from the last retained row with that key.
Deduplication ==
  \A c \in Countries :
    InSeq(c, produced) =>
      \A j \in 1..Len(kept[c]) :
        LET key == RecordKey(RecordOf(c, kept[c][j]))
            same == {m \in 1..Len(kept[c]) : RecordKey(RecordOf(c, kept[c][m])) = key}
            last == CHOOSE m \in same : \A n \in same : n <= m
        IN {r \in out_rows : RecordKey(r) = key} = {RecordOf(c, kept[c][last])}

\* A produced country has two retained rows with the same dedup key whose
\* records differ outside the key, and the output holds the later one.
DeduplicationWitness ==
  \E c \in Countries :
    /\ InSeq(c, produced)
    /\ \E j, m \in 1..Len(kept[c]) :
         /\ j < m
         /\ RecordKey(RecordOf(c, kept[c][j])) = RecordKey(RecordOf(c, kept[c][m]))
         /\ RecordOf(c, kept[c][j]) # RecordOf(c, kept[c][m])
         /\ RecordOf(c, kept[c][m]) \in out_rows

\* The three raw rows of the end-to-end scenario: one without sector, one
\* with sector "Health" and org "WHO", one duplicate of the second that
\* differs outside the dedup key.
Scenario ==
  << SrcRow("WHO", "WHO", "", "", "Kabul", "Y", "a"),
     SrcRow("WHO", "WHO", "", "Health", "Kabul", "Y", "a"),
     SrcRow("WHO", "WHO", "", "Health", "Kabul ", "Y", "b") >>

\* Country c has been produced from the three rows of the scenario, the run
\* having read no other row.
ScenarioRun(c) ==
  /\ InSeq(c, produced)
  /\ source[c] = Scenario
  /\ \A c2 \in DOMAIN source : c2 # c => source[c2] = <<>>

\* A record with sector code "HEA", org acronym "WHO" and empty error field.
CleanHealthRecord(r) ==
  r.sector_code = "HEA" /\ r.org_name = "WHO" /\ r.org_acronym = "WHO" /\ r.error = <<>>

\* C8 as stated: a country with the three rows of the scenario produces
\* exactly one record, with sector code "HEA", org acronym "WHO" and an empty
\* error field; the row without sector yields no record.
EndToEndScenario ==
  \A c \in Countries :
    ScenarioRun(c) =>
      /\ Cardinality(RecordsOf(c)) = 1
      /\ \A r \in RecordsOf(c) : CleanHealthRecord(r)

\* C8 as the code has it: a country with the three rows of the scenario
\* produces exactly two records: one with sector code "HEA", org acronym
\* "WHO" and an empty error field, and one for the row without sector, with
\* an empty sector code and the error "No sector".
EndToEndScenarioRetained ==
  \A c \in Countries :
    ScenarioRun(c) =>
      /\ Cardinality(RecordsOf(c)) = 2
      /\ Cardinality({r \in RecordsOf(c) : CleanHealthRecord(r)}) = 1
      /\ Cardinality({r \in RecordsOf(c) :
                        r.sector_code = "" /\ r.error = << <<"No sector">> >>}) = 1

\* A country that read the three rows of the scenario, no organisation being
\* known beforehand, has been produced.
EndToEndScenarioWitness ==
  \E c \in Countries :
    /\ ScenarioRun(c)
    /\ \A k \in DOMAIN org_map : k[1] # None

\* The source rows of country c that pass the configured filter.
PassFilter(c, row) == ~config[c].filter \/ EvalFilter(row)

\* A row without organisation (neither name nor acronym, once stripped),
\* without sector.
MissingOrg(c, row) ==
  ~Truthy(Strip(row.org)) /\ ~Truthy(Strip(AcronymCell(config[c], row)))
MissingSector(row) == ~Truthy(row.sector)

\* The retained row k is the source row: the cells preprocess_country does
\* not rewrite are the same.
SameRow(k, row) ==
  /\ k.org = (IF Truthy(row.org) THEN Strip(row.org) ELSE row.org)
  /\ k.acr = row.acr /\ k.typ = row.typ /\ k.adm1 = row.adm1
  /\ k.flag = row.flag /\ k.note = row.note

RowsMissing(c) ==
  SelectSeq(source[c],
            LAMBDA row : PassFilter(c, row) /\ (MissingOrg(c, row) \/ MissingSector(row)))

\* The retained rows without organisation or without sector that are
\* flagged for it.
RowsKeptMissing(c) ==
  SelectSeq(rows[c],
            LAMBDA k : \/ InSeq(<<"No org">>, k.Error) /\ MissingOrg(c, k)
                       \/ InSeq(<<"No sector">>, k.Error))

\* C9 as stated: the source rows that pass the filter and miss their
\* organisation or their sector are, each once and in source order, the
\* retained rows flagged "No org" or "No sector".
MissingRowsRetained ==
  \A c \in DOMAIN rows :
    /\ Len(RowsKeptMissing(c)) = Len(RowsMissing(c))
    /\ \A i \in 1..Len(RowsMissing(c)) :
         i <= Len(RowsKeptMissing(c)) => SameRow(RowsKeptMissing(c)[i], RowsMissing(c)[i])

RowsMissingRead(c) ==
  SelectSeq(source[c],
            LAMBDA row : /\ PassFilter(c, row)
                         /\ ~IsHxlRow(row)
                         /\ (MissingOrg(c, row) \/ MissingSector(row)))

\* C9 as the code has it: the source rows that pass the filter, are not
\* skipped as an HXL tag row (no cell starting with "#") and miss their
\* organisation or their sector are, each once and in source order, the
\* retained rows flagged "No org" or "No sector"; their Error list is not
\* empty.
MissingRowsRetainedUnlessHxl ==
  \A c \in DOMAIN rows :
    /\ Len(RowsKeptMissing(c)) = Len(RowsMissingRead(c))
    /\ \A i \in 1..Len(RowsMissingRead(c)) :
         i <= Len(RowsKeptMissing(c)) =>
           /\ SameRow(RowsKeptMissing(c)[i], RowsMissingRead(c)[i])
           /\ RowsKeptMissing(c)[i].Error # <<>>

\* A country has read three rows that pass the filter and miss organisation
\* or sector, one of them skipped as an HXL tag row, and has retained the other
\* two: first one without sector, then one without organisation.
MissingRowsRetainedWitness ==
  \E c \in DOMAIN rows :
    /\ Len(RowsMissingRead(c)) = 2
    /\ Len(RowsMissing(c)) = 3
    /\ Len(rows[c]) = 2
    /\ MissingSector(RowsMissingRead(c)[1])
    /\ MissingOrg(c, RowsMissingRead(c)[2])

\* process() has returned or has been left by an exception.
Ended == pc \in {"done", "raised"}

\* C10 (failure isolation): a country whose preprocessing raised has a
\* diagnostic against its dataset, is not in _iso3_to_datasetinfo and is not
\* produced, and once process() has ended every other country that is not
\* passed over has been preprocessed and, if its preprocessing succeeded,
\* produced; a country
\* whose preprocessing returned success is in _iso3_to_datasetinfo.
FailureIsolation ==
  /\ \A c \in DOMAIN outcome :
       outcome[c] = "raised" =>
         /\ \E e \in errors : e.dataset = DatasetName(c) /\ e.what = "error"
         /\ ~InSeq(c, iso3_to_datasetinfo)
         /\ ~InSeq(c, produced)
         /\ Ended => \A c2 \in Countries \ {c} :
                       ~Skipped(c2) =>
                         /\ c2 \in DOMAIN outcome
                         /\ outcome[c2] = "ok" => InSeq(c2, produced)
  /\ \A c \in DOMAIN outcome : outcome[c] = "ok" => InSeq(c, iso3_to_datasetinfo)

\* C11: nothing is process-fatal: no exception raised while a country is
\* handled, in the preprocess pass or in process_country, leaves process(),
\* and the countries that remain are still processed: once process() has ended
\* every country that is not passed over has been preprocessed and those
\* preprocessed with success have been produced.
NothingProcessFatal ==
  /\ pc # "raised"
  /\ pc = "done" =>
       \A c \in Countries :
         ~Skipped(c) =>
           /\ c \in DOMAIN outcome
           /\ outcome[c] = "ok" => InSeq(c, produced)

\* ----------------------------------------- properties of the vocabularies
\* C12: fuzzy cache growth: once get_code_from_name has invoked fuzzy
\* matching for a raw name, whether it matched or not and whatever code the
\* matched key maps to, no later call with the same raw name invokes fuzzy
\* matching again, because the name is then a key of the vocabulary or in
\* the unmatched list.
FuzzyCacheGrowth ==
  /\ lastLookup.fuzzy => ~lastLookup.again
  /\ \A name \in fuzzied : name \in DOMAIN VocabData \/ InSeq(name, VocabUnmatched)

\* C13: a name recorded in the unmatched list fails immediately (None,
\* without fuzzy matching) in every later call, whatever calls for other
\* names came in between, and the unmatched list only grows.
UnmatchedSticky ==
  [][/\ lastLookup'.listed => lastLookup'.code = None /\ ~lastLookup'.fuzzy
     /\ Len(VocabUnmatched') >= Len(VocabUnmatched)
     /\ \A i \in 1..Len(VocabUnmatched) : VocabUnmatched'[i] = VocabUnmatched[i]]_vars

\* C14: short-name guard: a call for a name of at most MATCH_THRESHOLD
\* characters that the vocabulary resolves neither exactly nor in normalised
\* form does not invoke fuzzy matching, leaves the name in the unmatched list
\* and returns None; and whenever fuzzy matching is invoked, its candidates
\* are vocabulary keys longer than MATCH_THRESHOLD characters.
ShortNameGuard ==
  [][/\ ( /\ StrLen(lastLookup'.name) <= MATCH_THRESHOLD
          /\ ~Truthy(Get(VocabData, lastLookup'.name))
          /\ ~Truthy(Get(VocabData, normalise(lastLookup'.name))) )
        => /\ ~lastLookup'.fuzzy
           /\ lastLookup'.code = None
           /\ InSeq(lastLookup'.name, VocabUnmatched')
     /\ \A i \in 1..Len(lastLookup'.names) :
          /\ lastLookup'.names[i] \in DOMAIN VocabData
          /\ StrLen(lastLookup'.names[i]) > MATCH_THRESHOLD]_vars

\* A short name not seen before has just been looked up and recorded as
\* unmatched, after fuzzy matching had been invoked for a longer name.
ShortNameGuardWitness ==
  /\ lastLookup.name # None
  /\ StrLen(lastLookup.name) <= MATCH_THRESHOLD
  /\ ~lastLookup.listed
  /\ ~lastLookup.fuzzy
  /\ lastLookup.code = None
  /\ InSeq(lastLookup.name, VocabUnmatched)
  /\ fuzzied # {}

\* The codes of the vocabulary under test: those of its reference table and
\* those of the hardcoded extra entries.
VocabCodes ==
  LET extra == IF vocab.kind = "sector" THEN SectorExtra ELSE OrgTypeExtra
  IN {vocab.table[i][1] : i \in 1..Len(vocab.table)} \cup
     {extra[i][1] : i \in 1..Len(extra)}

\* C15: after populate, for every reference table, every code of the table
\* and of the extra entries maps to itself and its normalised form maps to
\* the same code, and this stays true after any sequence of
\* get_code_from_name calls.
VocabIdentity ==
  \A code \in VocabCodes :
    /\ Get(VocabData, code) = code
    /\ Get(VocabData, normalise(code)) = code

\* --------------------------------- properties of preprocess_country's loop
\* The row the reader yielded last.
LastRead == source[DatesCountry][Len(source[DatesCountry])]

\* A pass of the row loop: the reader has yielded one more row.
RowPass == pc = "dates" /\ pc' = "dates" /\ Len(source'[DatesCountry]) > Len(source[DatesCountry])

\* C16: a row the configured filter evaluates to false for changes nothing:
\* it is not retained and not counted, the tracked earliest and latest dates,
\* the sector and org type vocabularies, the identity map, the identities and
\* Org.data stay as they were, and no diagnostic is emitted.
FilteredRowChangesNothing ==
  [][(RowPass /\ config[DatesCountry].filter /\ ~EvalFilter(LastRead'))
       => UNCHANGED <<rows, norows, earliest_start_date, latest_end_date, sector_data,
                      sector_unmatched, org_type_data, org_type_unmatched, org_map, infos,
                      data, errors>>]_vars

\* A row excluded by the filter has been read whose dates are valid, whose
\* sector resolves and whose organisation is new; after it a row passing the
\* filter has been retained.
FilteredRowChangesNothingWitness ==
  /\ pc = "dates"
  /\ config[DatesCountry].filter
  /\ config[DatesCountry].startdate_col
  /\ config[DatesCountry].enddate_col
  /\ Len(source[DatesCountry]) = 2
  /\ source[DatesCountry][1].flag = "N"
  /\ source[DatesCountry][1].org = "Who"
  /\ source[DatesCountry][1].start = "2020-01-15"
  /\ source[DatesCountry][2].flag = "Y"
  /\ source[DatesCountry][2].start = "2023-06-30"
  /\ norows = 1
  /\ earliest_start_date = <<6>>

\* A date cell that cannot be parsed or whose year is before 2000.
InvalidDate(value) ==
  /\ Truthy(value)
  /\ parse_date(value) = <<>> \/ parse_date(value)[1].year < 2000

\* A date cell that parses to a date of year 2000 or later.
ValidDate(value) == Truthy(value) /\ ~InvalidDate(value)

\* C17: for a row the loop handles, an unparseable or pre-2000 value in the
\* start date or end date column changes neither tracked date and adds
\* nothing to the row's Error list; every other non-empty value lowers the
\* earliest start date (start column) or raises the latest end date (end
\* column) when it is more extreme.
DateTracking ==
  [][(RowPass /\ Len(rows'[DatesCountry]) > Len(rows[DatesCountry]))
       => LET cfg == config[DatesCountry]
              row == LastRead'
              retained == rows'[DatesCountry][Len(rows'[DatesCountry])]
          IN /\ cfg.startdate_col =>
                  /\ InvalidDate(row.start) => earliest_start_date' = earliest_start_date
                  /\ ValidDate(row.start) =>
                       earliest_start_date' =
                         <<Min(earliest_start_date[1], parse_date(row.start)[1].date)>>
             /\ cfg.enddate_col =>
                  /\ InvalidDate(row.end) => latest_end_date' = latest_end_date
                  /\ ValidDate(row.end) =>
                       latest_end_date' =
                         <<Max(latest_end_date[1], parse_date(row.end)[1].date)>>
             /\ \A i \in 1..Len(retained.Error) :
                  retained.Error[i][1] \in {"No org", "No sector", "Unknown sector"}]_vars

\* ------------------------------------------ properties of the date range
\* The source period starts and ends of the countries produced.
ProducedStarts == {TimePeriod(c).start : c \in {c2 \in Countries : InSeq(c2, produced)}}

ProducedEnds == {TimePeriod(c).end : c \in {c2 \in Countries : InSeq(c2, produced)}}

\* C18: after process(), the global start date is the minimum of the source
\* period starts and the global end date the maximum of the source period
\* ends over exactly the countries that went through the production pass
\* (the initial dates when there is none), also when process() has ended
\* with an exception; a country whose preprocessing failed or was
\* unsuccessful is not among them.
GlobalDateRange ==
  Ended =>
    /\ \A c \in Countries : InSeq(c, produced) => outcome[c] = "ok"
    /\ start_date = IF ProducedStarts = {} THEN default_enddate
                    ELSE CHOOSE m \in ProducedStarts : \A x \in ProducedStarts : m <= x
    /\ end_date = IF ProducedEnds = {} THEN default_date
                  ELSE CHOOSE m \in ProducedEnds : \A x \in ProducedEnds : m >= x

\* process() has ended with one country produced, the other one, whose
\* source period starts earlier, excluded by an exception in its
\* preprocessing; the range is that of the country produced.
GlobalDateRangeWitness ==
  /\ pc = "done"
  /\ produced = <<"AFG">>
  /\ "ETH" \in DOMAIN outcome
  /\ outcome["ETH"] = "raised"
  /\ start_date = TimePeriod("AFG").start
  /\ end_date = TimePeriod("AFG").end

\* ------------------------------------------ properties of the admin fields
\* The admin fields of the record built.
AdmFields(r) ==
  {r.provider_admin1_name, r.provider_admin2_name, r.admin1_code, r.admin1_name,
   r.admin2_code, r.admin2_name}

\* At a level the record has either a pcode of the level with its name, or
\* an empty code and an empty name.
LevelResolvedOrEmpty(c, level, code, name) ==
  IF code = "" THEN name = ""
  ELSE PcodeName(c, level, code) # "" /\ name = PcodeName(c, level, code)

\* C19: the record's admin_level is at most 2 whatever depth the resolver
\* reached, and its provider admin names, admin codes and admin names are
\* strings, never null, and empty at a level that is blank or unresolved, for
\* every combination of configured admin name and admin code columns.
AdminFieldsWellFormed ==
  adm_record # <<>> =>
    /\ adm_record[1].admin_level <= 2
    /\ None \notin AdmFields(adm_record[1])
    /\ LevelResolvedOrEmpty(DatesCountry, 1, adm_record[1].admin1_code,
                            adm_record[1].admin1_name)
    /\ LevelResolvedOrEmpty(DatesCountry, 2, adm_record[1].admin2_code,
                            adm_record[1].admin2_name)

\* ------------------------------------- properties of complete_org_info
\* C20: complete_org_info never changes an identity's non-empty acronym or
\* non-empty type code; it sets the acronym only when the identity has none
\* and a non-empty one is supplied, storing at most its first MaxAcronym
\* characters with the normalised form of what it stored; when a supplied
\* type label does not resolve, a missing-value diagnostic is emitted and the
\* type code stays empty.
CompleteOrgInfoFrame ==
  [][(ncalls' # ncalls /\ lastOp'.op = "complete")
       => LET before == infos[lastOp'.id]
              after == infos'[lastOp'.id]
              org_acronym == lastOp'.key[1]
              org_type_name == lastOp'.key[2]
              sets == ~Truthy(before.acronym) /\ Truthy(org_acronym)
              asks == ~Truthy(before.type_code) /\ Truthy(org_type_name)
              code == get_code_from_name(org_type_name, org_type_data,
                                         org_type_unmatched, TRUE).code
          IN /\ Truthy(before.acronym) =>
                  /\ after.acronym = before.acronym
                  /\ after.normalised_acronym = before.normalised_acronym
             /\ Truthy(before.type_code) => after.type_code = before.type_code
             /\ ~sets => after.acronym = before.acronym
             /\ sets =>
                  /\ StrLen(after.acronym) <= MaxAcronym
                  /\ \/ after.acronym = org_acronym
                     \/ StrLen(org_acronym) > MaxAcronym /\ after.acronym = Trunc32(org_acronym)
                  /\ after.normalised_acronym = normalise(after.acronym)
             /\ (asks /\ ~Truthy(code)) =>
                  /\ MissingValue("dataset", "org type", org_type_name) \in errors'
                  /\ after.type_code = before.type_code
             /\ (asks /\ Truthy(code)) => after.type_code = code]_vars

\* complete_org_info has just been called with an acronym and an unknown
\* type label on an identity that had an acronym and no type code, and
\* another identity has received a truncated acronym.
CompleteOrgInfoFrameWitness ==
  /\ lastOp.op = "complete"
  /\ lastOp.before # <<>>
  /\ Truthy(lastOp.before[1].acronym)
  /\ ~Truthy(lastOp.before[1].type_code)
  /\ Truthy(lastOp.key[1])
  /\ lastOp.key[1] # lastOp.before[1].acronym
  /\ lastOp.key[2] = "Xyz"
  /\ infos[lastOp.id].acronym = lastOp.before[1].acronym
  /\ MissingValue("dataset", "org type", "Xyz") \in errors
  /\ \E id \in 1..Len(infos) : infos[id].acronym = Trunc32(LongAcronym)


\* ------------------------------------- properties: the two passes together
\* The acronym and the canonical name of the identity a record was built
\* from (the values process_country passes to Row for the organisation).
RecordOrg(r) == [acronym |-> r.org_name, name |-> r.org_acronym]

\* The organisations of the organisations output, as (acronym, name).
DataOrgs == {[acronym |-> data[k].acronym, name |-> data[k].name] : k \in DOMAIN data}

\* C21 (clean records reference an organisation of the output): every
\* record built from a retained row without errors carries the acronym and
\* the canonical name of an organisation that is in Org.data, the identity
\* process_country resolves for the row being the one preprocess_country
\* resolved and merged for it.
CleanRecordsReferenceOrgs ==
  \A r \in out_rows : r.error = <<>> => RecordOrg(r) \in DataOrgs


\* The source rows of country c that the row loop handles: those that pass
\* the filter and are not skipped as an HXL tag row.  The retained rows are
\* these, in order.
ReadRows(c) == SelectSeq(source[c], LAMBDA row : PassFilter(c, row) /\ ~IsHxlRow(row))

\* C22 (the error "No org"): a row is flagged "No org" if and only if both
\* its organisation name and its acronym are blank once stripped; a row
\* whose name is blank or whitespace only and whose acronym is not blank
\* uses the acronym and is not flagged.
NoOrgIffBlank ==
  \A c \in DOMAIN rows :
    /\ Len(rows[c]) = Len(ReadRows(c))
    /\ \A i \in 1..Len(rows[c]) :
         i <= Len(ReadRows(c)) =>
           (InSeq(<<"No org">>, rows[c][i].Error) <=> MissingOrg(c, ReadRows(c)[i]))


\* C23 (no data): generate_3w_dataset returns None exactly when the pipeline
\* produced no presence record, and a dataset whenever there is at least
\* one.
NoneIffNoRecords ==
  dataset_3w # "pending" => (dataset_3w = None <=> out_rows = {})


\* ------------------------------------------------- properties: the sheet
\* preprocess_country hands the tracked dates to Sheet.add_update_dates.
DatesHandedOver ==
  /\ pc = "dates"
  /\ pc' = "dates_end"
  /\ outcome'[DatesCountry] = "ok"
  /\ config[DatesCountry].startdate_col \/ config[DatesCountry].enddate_col

\* The lines email_text gained in the step.
NewLines == {email_text'[i] : i \in (Len(email_text) + 1)..Len(email_text')}

\* C25 (add_update_dates): after add_update_dates(country, start, end) the
\* row's automated start date is start and its automated end date is end,
\* whether or not the row had those fields before, and email_text gains a
\* line only for a date whose value changed.
AddUpdateDatesSets ==
  [][DatesHandedOver =>
       /\ sheet_row'.start = strftime(earliest_start_date[1])
       /\ sheet_row'.end = strftime(latest_end_date[1])
       /\ \A l \in NewLines :
            /\ l[2] = "start date" => sheet_row'.start # sheet_row.start
            /\ l[2] = "end date" => sheet_row'.end # sheet_row.end]_vars


\* C29 (any combination of date columns): with an allowed resource format
\* and every configured column in every row, preprocess_country returns
\* success whichever of the start date and end date columns are configured,
\* and the country reaches the production pass.
AnyDateColumnsSucceed ==
  pc = "dates_end" =>
    /\ outcome[DatesCountry] = "ok"
    /\ InSeq(DatesCountry, iso3_to_datasetinfo)


\* The countries whose preprocess_country raised.
Failed == {c \in DOMAIN outcome : outcome[c] = "raised"}

\* C26 (wholesale exclusion): a country whose preprocess_country raised
\* contributes no presence record, no retained row and no organisation:
\* when every row read so far is a row of such a country, Org.data holds no
\* organisation.
FailedCountryExcluded ==
  /\ \A c \in Failed : c \notin DOMAIN rows /\ RecordsOf(c) = {}
  /\ (\A c \in DOMAIN source : source[c] # <<>> => c \in Failed) => DOMAIN data = {}


\* C27 (errored and clean rows apart): in process_country a retained row
\* with errors never has the dedup key of a retained row without errors, so
\* neither record can replace the other in the output map.
ErroredAndCleanKeysDiffer ==
  \A c \in Countries :
    InSeq(c, produced) =>
      \A j, m \in 1..Len(kept[c]) :
        kept[c][j].Error # <<>> /\ kept[c][m].Error = <<>> =>
          RecordKey(RecordOf(c, kept[c][j])) # RecordKey(RecordOf(c, kept[c][m]))


\* The codes of the sector vocabulary.
SectorCodes == {sector_data.map[n] : n \in DOMAIN sector_data.map}

\* The record carries a sector error: "No sector" or "Unknown sector ...".
SectorError(r) ==
  \E i \in 1..Len(r.error) : r.error[i][1] \in {"No sector", "Unknown sector"}

\* C30 (records well formed): a record without errors has a sector code and
\* an organisation canonical name; a record without sector code has a sector
\* error ("No sector" or "Unknown sector ..."); the sector code of a record
\* is empty or a code of the sector vocabulary.
RecordsWellFormed ==
  \A r \in out_rows :
    /\ r.error = <<>> => Truthy(r.sector_code) /\ Truthy(RecordOrg(r).name)
    /\ r.sector_code = "" => r.error # <<>> /\ SectorError(r)
    /\ r.sector_code = "" \/ r.sector_code \in SectorCodes

\* The output holds a record without errors, a record flagged "No sector"
\* and a record flagged "Unknown sector".
RecordsWellFormedWitness ==
  /\ \E r \in out_rows : r.error = <<>> /\ r.sector_code = "HEA"
  /\ \E r \in out_rows : r.error = << <<"No sector">> >>
  /\ \E r \in out_rows : r.error = << <<"Unknown sector", "Xyz">> >>


\* C28 (no orphan organisation): every entry of Org.data is stored under
\* the current (normalised acronym, normalised name) of at least one used
\* identity; backfilling the acronym of an identity that was registered
\* before leaves no entry behind under its former key.
NoOrphanOrg ==
  \A k \in DOMAIN data :
    \E id \in 1..Len(infos) : infos[id].used /\ OrgKey(infos[id]) = k


\* ------------------------- SpecFind: Pipeline.find_datasets_resources
MaxFound == 3        \* datasets the search returns

\* The configuration: dataseries_ignore, tags_ignore and words_ignore.
DataseriesIgnore == {"Ignored series"}
TagsIgnore == {"ignored tag"}
WordsIgnore == {"test"}

\* A resource of a dataset: its name, its HDX format, when it was last
\* modified (later than default_date) and the format its url ends with
\* (None when that is not an allowed format).
HdxResource(name, format, last_modified, url_format) ==
  [name |-> name, format |-> format, last_modified |-> last_modified,
   url_format |-> url_format]

\* A dataset of the catalog: its name, its locations, whether it is archived,
\* its data series, its tags, the end date of its time period and its
\* resources.
HdxDataset(name, locations, archived, dataseries_name, tags, enddate, resources) ==
  [name |-> name, locations |-> locations, archived |-> archived,
   dataseries_name |-> dataseries_name, tags |-> tags, enddate |-> enddate,
   resources |-> resources]

Tags3w == {"operational presence"}

CsvOnly == << HdxResource("3w.csv", "csv", 2, "csv") >>

\* The datasets the search may return.
CatalogDatasets ==
  { HdxDataset("afg-3w", <<"AFG">>, FALSE, None, Tags3w, 7,
               << HdxResource("3w.pdf", "pdf", 9, None),
                  HdxResource("3w-2023.xlsx", "xlsx", 3, "xlsx"),
                  HdxResource("3w-2024.xlsx", "xlsx", 5, "csv") >>),
    HdxDataset("afg-3w-old", <<"AFG">>, FALSE, None, Tags3w, 5, CsvOnly),
    HdxDataset("afg-3w-copy", <<"AFG">>, FALSE, None, Tags3w, 7, CsvOnly),
    HdxDataset("eth-3w", <<"ETH">>, FALSE, None, Tags3w, 5, CsvOnly),
    HdxDataset("world-3w", <<"WORLD">>, FALSE, None, Tags3w, 9, CsvOnly),
    HdxDataset("afg-eth-3w", <<"AFG", "ETH">>, FALSE, None, Tags3w, 9, CsvOnly),
    HdxDataset("afg-3w-archived", <<"AFG">>, TRUE, None, Tags3w, 9, CsvOnly),
    HdxDataset("afg-3w-series", <<"AFG">>, FALSE, "Ignored series", Tags3w, 9, CsvOnly),
    HdxDataset("afg-3w-tagged", <<"AFG">>, FALSE, None, Tags3w \cup {"ignored tag"}, 9,
               CsvOnly),
    HdxDataset("afg-3w-TEST", <<"AFG">>, FALSE, None, Tags3w, 9, CsvOnly),
    HdxDataset("afg-3w-pdf", <<"AFG">>, FALSE, None, Tags3w, 9,
               << HdxResource("3w.pdf", "pdf", 2, None) >>) }

Catalogs == UNION { [1..n -> CatalogDatasets] : n \in 0..MaxFound }

\* any(x in dataset["name"].lower() for x in words_ignore), on the names of
\* the model.
HasIgnoredWord(name) == "test" \in WordsIgnore /\ name = "afg-3w-TEST"

\* The allowed_format flag of the loop over dataset.get_resources().
HasAllowedFormat(resources) ==
  \E i \in 1..Len(resources) : resources[i].format \in AllowedFormats

\* The "continue" tests of find_datasets_resources, in their order.
SkipDataset(to_process, dataset) ==
  IF Len(dataset.locations) # 1 THEN TRUE
  ELSE IF dataset.locations[1] = "WORLD" THEN TRUE
  ELSE IF to_process # {} /\ dataset.locations[1] \notin to_process THEN TRUE
  ELSE IF dataset.archived THEN TRUE
  ELSE IF dataset.dataseries_name \in DataseriesIgnore THEN TRUE
  ELSE IF \E x \in dataset.tags : x \in TagsIgnore THEN TRUE
  ELSE IF HasIgnoredWord(dataset.name) THEN TRUE
  ELSE ~HasAllowedFormat(dataset.resources)

\* The dataset kept for a country being whichever was handled last.
keep_last(existing_dataset, dataset) == dataset

\* "if enddate > existing_enddate": the dataset kept for a country that has
\* one already.
keep_dataset(existing_dataset, dataset) ==
  IF dataset.enddate > existing_dataset.enddate THEN dataset ELSE existing_dataset

\* One pass of "for dataset in datasets_found".
find_dataset(by_iso3, to_process, dataset) ==
  IF SkipDataset(to_process, dataset) THEN by_iso3
  ELSE LET countryiso3 == dataset.locations[1]
       IN IF countryiso3 \in DOMAIN by_iso3
            THEN Put(by_iso3, countryiso3, keep_dataset(by_iso3[countryiso3], dataset))
          ELSE Put(by_iso3, countryiso3, dataset)

\* resource_to_process: the resource of an allowed format that was modified
\* last (the first of them when several were), from the resources still to
\* look at; best is <<>> while none has been found.
RECURSIVE LatestResource(_, _, _)
LatestResource(resources, latest_last_modified, best) ==
  IF resources = <<>> THEN best
  ELSE LET resource == Head(resources)
       IN IF resource.format \in AllowedFormats /\ resource.last_modified > latest_last_modified
            THEN LatestResource(Tail(resources), resource.last_modified, <<resource>>)
          ELSE LatestResource(Tail(resources), latest_last_modified, best)

\* Sheet.add_update_row with filename_dates_broken False: the rows and
\* email_text after it.
add_update_row(sheet, email, c, dataset_name, resource_name, resource_format, url_format) ==
  LET isnew == c \notin DOMAIN sheet
      row == IF isnew THEN SheetRow(dataset_name, resource_name, resource_format)
             ELSE sheet[c]
      t1 == IF ~isnew /\ row.dataset # dataset_name
              THEN Append(email, <<c, "dataset", row.dataset, dataset_name>>) ELSE email
      t2 == IF ~isnew /\ row.resource # resource_name
              THEN Append(t1, <<c, "resource", row.resource, resource_name>>) ELSE t1
      t3 == IF ~isnew /\ row.format # resource_format
              THEN Append(t2, <<c, "format", row.format, resource_format>>) ELSE t2
      changed == isnew \/ t3 # email
      t4 == IF changed /\ url_format # None /\ url_format # resource_format
              THEN Append(t3, <<c, "url format", url_format, resource_format>>) ELSE t3
  IN [sheet |-> Put(sheet, c, [row EXCEPT !.dataset = dataset_name,
                                           !.resource = resource_name,
                                           !.format = resource_format]),
      email_text |-> t4]

\* One pass of "for countryiso3 in sorted(self._datasets_by_iso3)"; the
\* sheet rows have no manual resource and no Filename Dates flag, so no date
\* comes from the file name.
UpdateCountry(st, by_iso3, c) ==
  LET dataset == by_iso3[c]
      resource_to_process == LatestResource(dataset.resources, default_date, <<>>)[1]
  IN add_update_row(st.sheet, st.email_text, c, dataset.name, resource_to_process.name,
                    resource_to_process.format, resource_to_process.url_format)

RECURSIVE UpdateCountries(_, _, _)
UpdateCountries(st, by_iso3, cs) ==
  IF cs = <<>> THEN st
  ELSE UpdateCountries(IF Head(cs) \in DOMAIN by_iso3 THEN UpdateCountry(st, by_iso3, Head(cs))
                       ELSE st,
                       by_iso3, Tail(cs))

\* The sheet before the run: empty, or with a row for the first country.
SheetsBefore ==
  { [k \in {} |-> None],
    [k \in {"AFG"} |-> ReadRow("", "afg-3w-old", "3w.csv", "csv", "", "")],
    [k \in {"AFG"} |-> ReadRow("", "afg-3w", "3w-2023.xlsx", "xlsx", "15/01/2020",
                                "15/01/2020")] }

InitFind ==
  /\ org_map = EmptyDict
  /\ infos = <<>>
  /\ data = EmptyDict
  /\ org_type_data = OrgTypePopulate
  /\ org_type_unmatched = <<>>
  /\ sector_data = SectorPopulate
  /\ sector_unmatched = <<>>
  /\ errors = {}
  /\ pc = "find"
  /\ lastOp = NoOp
  /\ returned = EmptyDict
  /\ ncalls = 0
  /\ InitPipe
  /\ InitVocabIdle
  /\ InitDatesIdle
  /\ InitAdmIdle
  /\ InitGenIdle
  /\ InitSheetIdle
  /\ countryiso3s_to_process \in {{}, {"AFG"}}
  /\ datasets_found \in Catalogs
  /\ fi = 1
  /\ datasets_by_iso3 = EmptyDict
  /\ spreadsheet_rows \in SheetsBefore

\* find_datasets_resources: the next dataset the search returned.
FindNext ==
  /\ pc = "find"
  /\ fi <= Len(datasets_found)
  /\ datasets_by_iso3' = find_dataset(datasets_by_iso3, countryiso3s_to_process,
                                      datasets_found[fi])
  /\ fi' = fi + 1
  /\ UNCHANGED <<org_map, infos, data, org_type_data, org_type_unmatched, sector_data,
                 sector_unmatched, errors, pc, countryiso3s_to_process, datasets_found,
                 spreadsheet_rows>>
  /\ UNCHANGED pipeVars
  /\ UNCHANGED callVars
  /\ UNCHANGED vocabVars
  /\ UNCHANGED datesVars
  /\ UNCHANGED admVars
  /\ UNCHANGED genVars
  /\ UNCHANGED sheetVars

\* find_datasets_resources: every dataset has been handled; the sheet row
\* of each country with a dataset is added or updated.
FindSheet ==
  /\ pc = "find"
  /\ fi > Len(datasets_found)
  /\ LET st == UpdateCountries([sheet |-> spreadsheet_rows, email_text |-> email_text],
                               datasets_by_iso3, CountrySeq)
     IN /\ spreadsheet_rows' = st.sheet
        /\ email_text' = st.email_text
  /\ pc' = "found"
  /\ UNCHANGED worksheet
  /\ UNCHANGED <<org_map, infos, data, org_type_data, org_type_unmatched, sector_data,
                 sector_unmatched, errors, countryiso3s_to_process, datasets_found, fi,
                 datasets_by_iso3>>
  /\ UNCHANGED pipeVars
  /\ UNCHANGED callVars
  /\ UNCHANGED vocabVars
  /\ UNCHANGED datesVars
  /\ UNCHANGED admVars
  /\ UNCHANGED genVars

NextFind == FindNext \/ FindSheet

SpecFind == InitFind /\ [][NextFind]_vars

\* ---------------------------------------------- properties: the catalog
\* The country of a dataset with exactly one location.
CountryOf(dataset) == dataset.locations[1]

\* A dataset find_datasets_resources may keep: exactly one location, not
\* WORLD, among the countries to process (all of them when none is given),
\* not archived, in no ignored data series, with no ignored tag and no
\* ignored word in its name, with a resource of an allowed format.
Eligible(dataset) ==
  /\ Len(dataset.locations) = 1
  /\ CountryOf(dataset) # "WORLD"
  /\ countryiso3s_to_process = {} \/ CountryOf(dataset) \in countryiso3s_to_process
  /\ ~dataset.archived
  /\ dataset.dataseries_name \notin DataseriesIgnore
  /\ dataset.tags \cap TagsIgnore = {}
  /\ ~HasIgnoredWord(dataset.name)
  /\ \E i \in 1..Len(dataset.resources) : dataset.resources[i].format \in AllowedFormats

\* The eligible datasets of country c among those handled so far.
EligibleFound(c) ==
  {datasets_found[i] : i \in {j \in 1..(fi - 1) : /\ Eligible(datasets_found[j])
                                                   /\ CountryOf(datasets_found[j]) = c}}

\* C24 (latest eligible dataset): the dataset kept for a country is one of
\* its eligible datasets and no eligible dataset of the country has a later
\* end date, in whatever order the search returned the datasets; a country
\* has a dataset kept exactly when it has an eligible one.
LatestEligibleKept ==
  \A c \in Countries \cup {"WORLD"} :
    /\ c \in DOMAIN datasets_by_iso3 <=> EligibleFound(c) # {}
    /\ c \in DOMAIN datasets_by_iso3 =>
         /\ datasets_by_iso3[c] \in EligibleFound(c)
         /\ \A d \in EligibleFound(c) : d.enddate <= datasets_by_iso3[c].enddate

\* The search has been handled whole; it returned two eligible datasets of a
\* country, the one with the later end date first, and a dataset of that
\* country with a still later end date that is not eligible.
LatestEligibleKeptWitness ==
  /\ pc = "found"
  /\ \E i, j, k \in 1..Len(datasets_found) :
       /\ i < j
       /\ Eligible(datasets_found[i]) /\ Eligible(datasets_found[j])
       /\ CountryOf(datasets_found[i]) = CountryOf(datasets_found[j])
       /\ datasets_found[i].enddate > datasets_found[j].enddate
       /\ ~Eligible(datasets_found[k])
       /\ datasets_found[k].locations = datasets_found[i].locations
       /\ datasets_found[k].enddate > datasets_found[i].enddate
       /\ datasets_by_iso3[CountryOf(datasets_found[i])] = datasets_found[i]

====
